---- MODULE Spec2Model ----
(***************************************************************************)
(* Model of the resilient message delivery subsystem of                    *)
(* pharma-whatsapp-backend: the retrying broker consumer                   *)
(* (UnifiedConsumer + RabbitMQErrorHandler), the broker -> Redis stream -> *)
(* database bridge (MessageBridge + RedisConsumer + MessageDatabase) and   *)
(* the dead-letter store with its sweep (DeadLetterQueue + DLQManager).    *)
(*                                                                         *)
(* Each subsystem has its own specification over the shared variables:     *)
(*   SpecConsumer   : UnifiedConsumer on whatsapp.send.commands            *)
(*   SpecConnection : UnifiedConsumer's connection, reconnect and stop     *)
(*   SpecBridge     : MessageBridge / RedisConsumer / MessageDatabase      *)
(*   SpecLoop       : the loop of RedisConsumer.startConsuming             *)
(*   SpecDLQ        : DeadLetterQueue / DLQManager                         *)
(*   SpecRepublish  : the same, with records parked at any retryCount      *)
(*   SpecDecision   : the sweep's decision on one record                   *)
(*   SpecBackoff    : the retry delays                                     *)
(*   SpecBreaker    : CircuitBreakerService                                *)
(*   SpecLimiter    : RateLimiter with the fallback configuration          *)
(*   SpecWindow     : RateLimiter with any configured limit                *)
(*   SpecSend       : SessionManager.sendMessage as the consumer calls it  *)
(*   SpecTopology   : the broker declarations and UnifiedProducer          *)
(***************************************************************************)
EXTENDS Integers, Sequences, FiniteSets, TLC

\* ------------------------------------------------------------------ bounds
MaxMsgs == 2          \* commands published to whatsapp.send.commands
MaxEvents == 2        \* events published with routing key message.received
MaxCrashes == 1       \* log-reader crash/resume cycles explored
MaxParked == 1         \* records parked in the dead-letter store
MaxNow == 1            \* clock ticks of MinRetryDelay explored
MaxCbCalls == 5       \* executions started on the circuit breaker
MaxCbInFlight == 2    \* breaker-guarded actions awaited at once
MaxCbTicks == 3       \* clock steps of the breaker's clock
MaxLimCalls == 4      \* canSendMessage calls made
MaxLimTicks == 5      \* clock steps of the rate limiter's clock
MaxLoopReads == 3      \* reads the log reader loop makes
MaxRetryCount == 7    \* retry counts handed to calculateRetryDelay
MaxLimMax == 3        \* largest MAX_MESSAGES_PER_WINDOW read from the environment
MaxConnErrors == 3    \* 'error' events of the consumer's broker connection

MsgIds == 1..MaxMsgs
EventIds == 1..MaxEvents
RecIds == 1..MaxParked

\* ------------------------------------------------- program constants
ConsumerMaxRetries == 3     \* UnifiedConsumer config.maxRetries
ConfigRetryDelay == 1000    \* UnifiedConsumer config.retryDelay (ms)
ResourceLockedDelay == 5000 \* analyzeError: retryDelay of RESOURCE_LOCKED
ConnRefusedDelay == 2000    \* analyzeError: retryDelay of CONNECTION_REFUSED
DLQMaxRetries == 3          \* DeadLetterQueue config.maxRetries
MinRetryDelay == 1          \* DLQManager minRetryDelay (300 s), one clock tick
DlqEnabled == TRUE          \* UnifiedConsumer config.dlqEnabled

CbThreshold == 3            \* CircuitBreakerService.getInstance: threshold
CbCooldownTime == 30000     \* CircuitBreakerService.getInstance: cooldownTime (ms)
RATE_LIMIT_WINDOW == 30000  \* RateLimiter: RATE_LIMIT_WINDOW fallback (ms)
MAX_MESSAGES_PER_WINDOW == 1 \* RateLimiter: MAX_MESSAGES_PER_WINDOW fallback

NoHeader == -1              \* an absent x-retry-count header

\* ------------------------------------------------------------ variables
VARIABLES
  \* --- broker and UnifiedConsumer
  brokerQ,      \* queue name -> sequence of messages waiting in the broker
  inflight,     \* deliveries handed to a consumer callback, not yet resolved
  chanOpen,     \* UnifiedConsumer.channel is a live channel (not null)
  timers,       \* pending setTimeout republish closures of handleMessageError
  pubLog,       \* history: every broker publish attempted by UnifiedConsumer
  resolved,     \* history: how each delivery's callback ended
  published,    \* number of commands published so far
  \* --- bridge
  bridgeQ,      \* broker queue whatsapp.messages.bridge
  bridgeDlq,    \* messages the broker dead-lettered from the bridge queue
  bridgeLog,    \* history of MessageBridge broker-delivery outcomes
  stream,       \* Redis stream whatsapp:messages: sequence of entries
  lastDelivered,\* consumer group cursor: index of the last entry delivered
  pel,          \* pending entries list of the group (delivered, not acked)
  batch,        \* entries returned by the current xReadGroup, still to process
  readerUp,     \* the log reader process is running its loop
  cache,        \* MessageDatabase.cache keys (in memory)
  disk,         \* record ids in messages.json (written by saveToDisk)
  entryLog,     \* history: per stream entry, callback result and xAck
  eventsOut,    \* number of events published so far
  crashes,      \* reader crashes so far
  \* --- dead-letter store
  redisDlq,     \* key dlq:message:<id> -> DLQMessage record, or Absent
  archive,      \* ids with an entry in a dlq:archive:<day> list
  retryLog,     \* history: every publish of retryMessage and what the call returned
  retryPc,      \* caller -> its retryMessage call in progress, or Idle
  todo,         \* caller -> snapshot records its loop has still to process
  job,          \* caller -> the loop it is running, or "none"
  now,          \* clock, in units of minRetryDelay
  parked,       \* number of records parked so far
  budget,       \* history: id -> retryCount and time it was parked with, republishes made
  \* --- the sweep's decision on one record
  probe,        \* a DLQMessage and a time handed to shouldRetryMessage
  verdict,      \* what processFailedMessages did with it, or "none"
  backoff,      \* an error and a retry count, and the delays computed for them
  \* --- circuit breaker
  cb,           \* the breaker's fields failureCount, isOpen, nextTryTime
  cbNow,        \* Date.now() (ms)
  cbInFlight,   \* awaited actions: how many were let through closed / after cooldown
  cbCalls,      \* executions started so far
  cbStreak,     \* history: failed executions since the last success or reset
  cbLast,       \* history: the last thing an execution did
  \* --- RateLimiter
  rateLimitMap, \* key -> RateLimitEntry, or Absent
  limNow,       \* Date.now() as the rate limiter reads it
  limCalls,     \* canSendMessage calls made so far
  limSent,      \* history: key, content -> time of the last allowed send, -1 if none
  limLast,      \* history: the last canSendMessage call and its result
  sendFailed,   \* history: key -> the last send the limiter admitted for it failed
  sendLast,     \* history: the last send command and how it ended
  limMax,       \* RateLimiter.MAX_MESSAGES_PER_WINDOW as read from the environment
  limHistory,   \* history: key -> times of the allowed sends, calls refused at the limit
  \* --- broker topology and UnifiedProducer
  topo,         \* the broker's exchanges, queues and bindings
  declOk,       \* history: components whose declarations all succeeded
  declFailed,   \* history: declarations the broker refused
  prodChan,     \* UnifiedProducer.channel: null, declaring, ready or closed
  prodLog,      \* history: publishes and sends the producer made
  \* --- RedisConsumer.startConsuming, the loop itself
  loopPc,       \* where startConsuming is: idle, loop, sleeping, returned, failed
  isConsuming,  \* RedisConsumer.isConsuming
  groupExists,  \* the consumer group exists in Redis
  loopReads,    \* xReadGroup calls made so far
  loopLog,      \* history of this run of the loop: read results met, stop asked for
  \* --- UnifiedConsumer, its connection
  connection,   \* UnifiedConsumer.connection is set (not null)
  channel,      \* UnifiedConsumer.channel is set (not null)
  isRunning,    \* UnifiedConsumer.isRunning
  link,         \* the broker connection behind this.connection is alive
  consuming,    \* queues with a consume callback registered on the live channel
  connTimers,   \* pending setTimeout closures: reconnect() and connect()
  connErrors,   \* 'error' events so far
  connLog       \* history: start made, last error and action, queues consumed before it

consVars == <<brokerQ, inflight, chanOpen, timers, pubLog, resolved, published>>
bridgeVars == <<bridgeQ, bridgeDlq, bridgeLog, stream, lastDelivered, pel, batch,
                readerUp, cache, disk, entryLog, eventsOut, crashes>>
dlqVars == <<redisDlq, archive, retryLog, retryPc, todo, job, now, parked, budget>>
decVars == <<probe, verdict, backoff>>
cbVars == <<cb, cbNow, cbInFlight, cbCalls, cbStreak, cbLast>>
limVars == <<rateLimitMap, limNow, limCalls, limSent, limLast, sendFailed, sendLast,
             limMax, limHistory>>
topoVars == <<topo, declOk, declFailed, prodChan, prodLog>>
loopVars == <<loopPc, isConsuming, groupExists, loopReads, loopLog>>
connVars == <<connection, channel, isRunning, link, consuming, connTimers, connErrors, connLog>>
vars == <<consVars, bridgeVars, dlqVars, decVars, cbVars, limVars, topoVars, loopVars,
          connVars>>

\* Each subsystem's actions leave the other subsystems alone.
ConsFrame == UNCHANGED <<bridgeVars, dlqVars, decVars, cbVars, limVars, topoVars, loopVars,
                         connVars>>
BridgeFrame == UNCHANGED <<consVars, dlqVars, decVars, cbVars, limVars, topoVars, loopVars,
                         connVars>>
DlqFrame == UNCHANGED <<consVars, bridgeVars, decVars, cbVars, limVars, topoVars, loopVars,
                         connVars>>
DecFrame == UNCHANGED <<consVars, bridgeVars, dlqVars, cbVars, limVars, topoVars, loopVars,
                         connVars>>
CbFrame == UNCHANGED <<consVars, bridgeVars, dlqVars, decVars, limVars, topoVars, loopVars,
                         connVars>>
LimFrame == UNCHANGED <<consVars, bridgeVars, dlqVars, decVars, cbVars, topoVars, loopVars,
                         connVars>>
TopoFrame == UNCHANGED <<consVars, bridgeVars, dlqVars, decVars, cbVars, limVars, loopVars,
                         connVars>>
LoopFrame == UNCHANGED <<consVars, bridgeVars, dlqVars, decVars, cbVars, limVars, topoVars,
                         connVars>>
ConnFrame == UNCHANGED <<consVars, bridgeVars, dlqVars, decVars, cbVars, limVars, topoVars,
                         loopVars>>

\* ============================================================ error handler
\* Errors a handler can throw, by the two features analyzeError reads:
\* error.code ("none" = absent/falsy, "other" = a truthy code outside the
\* switch, e.g. Node's 'ECONNRESET') and the patterns the lower-cased
\* error.message contains.
ErrorSamples ==
  { [name |-> "ConnectionReset",    code |-> "other", msg |-> {}],
    [name |-> "ConnectionResetMsg", code |-> "none",  msg |-> {}],
    [name |-> "ValidationError",    code |-> "none",  msg |-> {}],
    [name |-> "ResourceLocked",     code |-> "405",   msg |-> {"resource locked"}],
    [name |-> "NotFound",           code |-> "404",   msg |-> {"not found"}],
    [name |-> "AccessRefused",      code |-> "403",   msg |-> {"access refused"}],
    [name |-> "MessageTooLarge",    code |-> "none",  msg |-> {"message too large"}],
    [name |-> "PermissionDenied",   code |-> "none",  msg |-> {"permission denied"}],
    [name |-> "PreconditionFailed", code |-> "406",   msg |-> {"precondition failed"}],
    \* CircuitBreakerService.execute: new Error("Circuit breaker aberto para
    \* <service>. Tente novamente em <n>s"), no code, no listed phrase
    [name |-> "CircuitBreakerOpen", code |-> "none",  msg |-> {}],
    \* handleSendMessage: new Error(`Esperado exatamente 1 sessão ativa, mas
    \* há ${n}. IDs: ${ids.join(', ')}`), no code; the text carries the ids of
    \* the active sessions: none, ids with no listed phrase, an id holding
    \* "405" (say 5511940512345)
    [name |-> "NoActiveSession",    code |-> "none",  msg |-> {}],
    [name |-> "TwoActiveSessions",  code |-> "none",  msg |-> {}],
    [name |-> "TwoActiveSessions405", code |-> "none", msg |-> {"405"}] }

\* The errors handleSendMessage throws when the active sessions are not
\* exactly one.
SessionCountErrors == {"NoActiveSession", "TwoActiveSessions", "TwoActiveSessions405"}

ErrorNames == { e.name : e \in ErrorSamples }

ErrorByName(n) == CHOOSE e \in ErrorSamples : e.name = n

\* The errors the spec's taxonomy calls terminal / retryable.
ConnectionResetFlavored == {"ConnectionReset", "ConnectionResetMsg"}

ErrInfo(t, r, rc, d, dl) ==
  [type |-> t, retryable |-> r, shouldReconnect |-> rc, shouldUseDLQ |-> d, retryDelay |-> dl]

\* analyzeError, first half: the switch on error.code.
AnalyzeCode(error) ==
  CASE error.code = "none" -> ErrInfo("UNKNOWN_ERROR", FALSE, FALSE, FALSE, 0)
    [] error.code = "403"  -> ErrInfo("ACCESS_REFUSED", FALSE, FALSE, TRUE, 0)
    [] error.code = "404"  -> ErrInfo("NOT_FOUND", FALSE, FALSE, TRUE, 0)
    [] error.code = "406"  -> ErrInfo("PRECONDITION_FAILED", FALSE, FALSE, TRUE, 0)
    [] error.code = "405"  -> ErrInfo("RESOURCE_LOCKED", TRUE, FALSE, FALSE, ResourceLockedDelay)
    [] error.code = "503"  -> ErrInfo("CONNECTION_REFUSED", TRUE, TRUE, FALSE, ConnRefusedDelay)
    [] OTHER               -> ErrInfo("UNKNOWN_ERROR", TRUE, TRUE, TRUE, 0)

\* analyzeError, second half: the else-if chain on the lower-cased message,
\* which overrides what the switch set (c); retryDelay is assigned only by the
\* RESOURCE_LOCKED and CONNECTION_REFUSED branches.
AnalyzeMessage(msg, c) ==
  IF "access refused" \in msg \/ "403" \in msg THEN
    ErrInfo("ACCESS_REFUSED", FALSE, FALSE, TRUE, c.retryDelay)
  ELSE IF "not found" \in msg \/ "404" \in msg THEN
    ErrInfo("NOT_FOUND", FALSE, FALSE, TRUE, c.retryDelay)
  ELSE IF "precondition failed" \in msg \/ "406" \in msg THEN
    ErrInfo("PRECONDITION_FAILED", FALSE, FALSE, TRUE, c.retryDelay)
  ELSE IF "resource locked" \in msg \/ "405" \in msg THEN
    ErrInfo("RESOURCE_LOCKED", TRUE, FALSE, FALSE, ResourceLockedDelay)
  ELSE IF "connection refused" \in msg \/ "503" \in msg THEN
    ErrInfo("CONNECTION_REFUSED", TRUE, TRUE, FALSE, ConnRefusedDelay)
  ELSE IF "permission denied" \in msg THEN
    ErrInfo("PERMISSION_DENIED", FALSE, FALSE, TRUE, c.retryDelay)
  ELSE IF "queue not found" \in msg THEN
    ErrInfo("QUEUE_NOT_FOUND", FALSE, FALSE, TRUE, c.retryDelay)
  ELSE IF "exchange not found" \in msg THEN
    ErrInfo("EXCHANGE_NOT_FOUND", FALSE, FALSE, TRUE, c.retryDelay)
  ELSE IF "invalid routing key" \in msg THEN
    ErrInfo("INVALID_ROUTING_KEY", FALSE, FALSE, TRUE, c.retryDelay)
  ELSE IF "message too large" \in msg THEN
    ErrInfo("MESSAGE_TOO_LARGE", FALSE, FALSE, TRUE, c.retryDelay)
  ELSE c

\* The classifications the taxonomy calls terminal.
TerminalTypes ==
  {"ACCESS_REFUSED", "PERMISSION_DENIED", "NOT_FOUND", "PRECONDITION_FAILED",
   "MESSAGE_TOO_LARGE"}

\* analyzeError(error, context)
analyzeError(error) == AnalyzeMessage(error.msg, AnalyzeCode(error))

\* shouldRetry(errorInfo, currentRetryCount)
shouldRetry(errorInfo, currentRetryCount) ==
  /\ errorInfo.retryable
  /\ ~(currentRetryCount >= ConsumerMaxRetries)
  /\ errorInfo.type \notin {"ACCESS_REFUSED", "PERMISSION_DENIED", "MESSAGE_TOO_LARGE"}

Pow2(n) == IF n <= 0 THEN 1 ELSE 2 ^ n

\* calculateRetryDelay (exponentialBackoff is true in UnifiedConsumer)
calculateRetryDelay(errorInfo, currentRetryCount) ==
  IF errorInfo.retryDelay # 0 THEN errorInfo.retryDelay
  ELSE ConfigRetryDelay * Pow2(currentRetryCount)

\* handleError, after analyzeError: the recommended action for errorInfo.
ActionFor(errorInfo, currentRetryCount) ==
  IF errorInfo.type = "ACCESS_REFUSED" THEN
    [type |-> errorInfo.type, action |-> "log", delay |-> 0]
  ELSE IF errorInfo.type = "PERMISSION_DENIED" THEN
    [type |-> errorInfo.type, action |-> "log", delay |-> 0]
  ELSE IF errorInfo.shouldReconnect THEN
    [type |-> errorInfo.type, action |-> "reconnect",
     delay |-> calculateRetryDelay(errorInfo, currentRetryCount)]
  ELSE IF shouldRetry(errorInfo, currentRetryCount) THEN
    [type |-> errorInfo.type, action |-> "retry",
     delay |-> calculateRetryDelay(errorInfo, currentRetryCount)]
  ELSE IF errorInfo.shouldUseDLQ /\ DlqEnabled THEN
    [type |-> errorInfo.type, action |-> "dlq", delay |-> 0]
  ELSE
    [type |-> errorInfo.type, action |-> "discard", delay |-> 0]

\* handleError(error, context, currentRetryCount)
handleError(error, currentRetryCount) == ActionFor(analyzeError(error), currentRetryCount)

\* ================================================================== broker
SendCommands == "whatsapp.send.commands"
MessageBridgeQ == "whatsapp.messages.bridge"
InstanceQueue == "baileys.instance.queue.default"
DeadLetterQ == "baileys.dead.letter"
QueueNames == {SendCommands, MessageBridgeQ, InstanceQueue, DeadLetterQ}

\* Exchange types as declared by UnifiedConsumer.connect / setupDeadLetterQueue.
ExchangeType(ex) == IF ex = "baileys.dlx" THEN "direct" ELSE "topic"

\* Every bindQueue the producer and the consumer issue.
Bindings ==
  { [queue |-> MessageBridgeQ, exchange |-> "whatsapp.messages", pattern |-> <<"message", "received">>],
    [queue |-> DeadLetterQ,    exchange |-> "baileys.dlx",       pattern |-> <<"dead", "letter">>],
    [queue |-> InstanceQueue,  exchange |-> "baileys.events",    pattern |-> <<"instance", "create">>],
    [queue |-> InstanceQueue,  exchange |-> "baileys.events",    pattern |-> <<"instance", "delete">>],
    [queue |-> InstanceQueue,  exchange |-> "baileys.events",    pattern |-> <<"instance", "default", "*">>] }

\* setupQueues: the queues declared with the dead-letter arguments
\* x-dead-letter-exchange = baileys.dlx, x-dead-letter-routing-key = dead.letter.
HasDlxArgs(q) == DlqEnabled /\ q \in {SendCommands, MessageBridgeQ, InstanceQueue}

\* AMQP topic matching on dot-separated words: * is one word, # any number.
RECURSIVE TopicMatch(_, _)
TopicMatch(p, k) ==
  IF p = <<>> THEN k = <<>>
  ELSE IF Head(p) = "#" THEN
    TopicMatch(Tail(p), k) \/ (k # <<>> /\ TopicMatch(p, Tail(k)))
  ELSE /\ k # <<>>
       /\ (Head(p) = "*" \/ Head(p) = Head(k))
       /\ TopicMatch(Tail(p), Tail(k))

\* The queues a publish to (exchange, routing key) reaches.
Route(ex, key) ==
  { b.queue : b \in { c \in Bindings :
        /\ c.exchange = ex
        /\ IF ExchangeType(ex) = "direct" THEN c.pattern = key
           ELSE TopicMatch(c.pattern, key) } }

\* channel.publish on a live channel: the broker appends to every routed
\* queue; a message no binding matches is dropped (no mandatory flag).
BrokerPublish(q, ex, key, m) ==
  [qq \in QueueNames |-> IF qq \in Route(ex, key) THEN Append(q[qq], m) ELSE q[qq]]

\* channel.nack(msg, false, false): the broker dead-letters the message through
\* the queue's dead-letter arguments (headers kept, x-death added) or drops it.
BrokerNack(q, queue, m) ==
  IF HasDlxArgs(queue)
  THEN BrokerPublish(q, "baileys.dlx", <<"dead", "letter">>, [m EXCEPT !.death = TRUE])
  ELSE q

\* A broker message: body id and the headers the consumer reads and writes.
NewMsg(i) == [id |-> i, rc |-> NoHeader, etype |-> "none", final |-> FALSE, death |-> FALSE]

\* msg.properties?.headers?.['x-retry-count'] || 0
HeaderRetryCount(m) == IF m.rc = NoHeader THEN 0 ELSE m.rc

\* ========================================================= UnifiedConsumer
\* The branches of handleMessageError as the effects they have, given the
\* action handleError recommends, whether this.channel is live and whether the
\* dead-letter publish throws. On a null channel every channel call throws a
\* TypeError: the ack of the retry branch (after the timer is set), the
\* publish, and the nack of the catch block, whose exception leaves the
\* callback.
Effects(m, retryCount, errorAction, chanUp, publishThrows) ==
  IF errorAction.action = "retry" /\ retryCount < ConsumerMaxRetries THEN
    [action |-> errorAction.action, timer |-> TRUE, dlqTried |-> FALSE, dlqOk |-> FALSE,
     ack |-> chanUp, nack |-> FALSE,
     out |-> [m EXCEPT !.rc = retryCount + 1, !.etype = errorAction.type]]
  ELSE IF errorAction.action = "dlq" /\ DlqEnabled THEN
    IF chanUp /\ ~publishThrows
    THEN [action |-> errorAction.action, timer |-> FALSE, dlqTried |-> TRUE, dlqOk |-> TRUE,
          ack |-> TRUE, nack |-> FALSE,
          out |-> [m EXCEPT !.rc = retryCount, !.etype = errorAction.type, !.final = TRUE]]
    ELSE [action |-> errorAction.action, timer |-> FALSE, dlqTried |-> TRUE, dlqOk |-> FALSE,
          ack |-> FALSE, nack |-> chanUp, out |-> m]
  ELSE
    [action |-> errorAction.action, timer |-> FALSE, dlqTried |-> FALSE, dlqOk |-> FALSE,
     ack |-> FALSE, nack |-> chanUp, out |-> m]

\* A faulty variant of handleMessageError, for C8: its catch block acks the
\* delivery where the code nacks it.
handleMessageErrorAckingInCatch(m, error, chanUp, publishThrows) ==
  [Effects(m, HeaderRetryCount(m), handleError(error, HeaderRetryCount(m)), chanUp,
           publishThrows)
     EXCEPT !.ack = chanUp, !.nack = FALSE]

\* A faulty variant of handleMessageError, for C31: it nacks the delivery on
\* its way out (as a finally block would) whatever its branch did before.
handleMessageErrorNackingOnExit(m, error, chanUp, publishThrows) ==
  [Effects(m, HeaderRetryCount(m), handleError(error, HeaderRetryCount(m)), chanUp,
           publishThrows)
     EXCEPT !.nack = chanUp]

\* handleMessageError(msg, error, context)
handleMessageError(m, error, chanUp, publishThrows) ==
  Effects(m, HeaderRetryCount(m), handleError(error, HeaderRetryCount(m)), chanUp, publishThrows)

\* The per-delivery state machine of the spec, read off the effects.
Outcome(eff) ==
  IF eff.timer /\ eff.ack THEN "Retried"
  ELSE IF eff.dlqOk /\ eff.ack THEN "DeadLettered"
  ELSE IF eff.nack THEN "Discarded"
  ELSE "Threw"

\* UnifiedProducer.publishSendCommand -> sendToQueue(whatsapp.send.commands)
PublishCommand ==
  /\ published < MaxMsgs
  /\ published' = published + 1
  /\ brokerQ' = [brokerQ EXCEPT ![SendCommands] = Append(@, NewMsg(published + 1))]
  /\ UNCHANGED <<inflight, chanOpen, timers, pubLog, resolved>>
  /\ ConsFrame

\* The broker hands the head of whatsapp.send.commands to the consume callback.
Deliver ==
  /\ chanOpen
  /\ brokerQ[SendCommands] # <<>>
  /\ inflight' = Append(inflight, Head(brokerQ[SendCommands]))
  /\ brokerQ' = [brokerQ EXCEPT ![SendCommands] = Tail(@)]
  /\ UNCHANGED <<chanOpen, timers, pubLog, resolved, published>>
  /\ ConsFrame

RemoveAt(seq, i) == SubSeq(seq, 1, i - 1) \o SubSeq(seq, i + 1, Len(seq))

\* startSendCommandsConsumer callback, handler resolved: channel.ack(msg).
\* On a null channel the ack throws inside the try, and the catch runs
\* handleMessageError on that TypeError, whose nack throws again.
HandlerSucceeds(i) ==
  /\ i \in 1..Len(inflight)
  /\ LET m == inflight[i]
     IN /\ resolved' = resolved \cup
             {[id |-> m.id, rc |-> HeaderRetryCount(m), err |-> "none", chan |-> chanOpen,
               action |-> "none", timer |-> FALSE, dlqTried |-> FALSE, dlqOk |-> FALSE,
               ack |-> chanOpen, nack |-> FALSE,
               outcome |-> IF chanOpen THEN "Acked" ELSE "Threw"]}
  /\ inflight' = RemoveAt(inflight, i)
  /\ UNCHANGED <<brokerQ, chanOpen, timers, pubLog, published>>
  /\ ConsFrame

\* What the broker and the process hold after the effects of
\* handleMessageError on delivery i (message m) failing with error e.
Resolve(i, m, e, eff) ==
  /\ resolved' = resolved \cup
       {[id |-> m.id, rc |-> HeaderRetryCount(m), err |-> e.name, chan |-> chanOpen,
         action |-> eff.action, timer |-> eff.timer, dlqTried |-> eff.dlqTried,
         dlqOk |-> eff.dlqOk, ack |-> eff.ack, nack |-> eff.nack,
         outcome |-> Outcome(eff)]}
  /\ timers' = IF eff.timer THEN timers \cup {eff.out} ELSE timers
  /\ brokerQ' = IF eff.dlqOk
                THEN BrokerPublish(brokerQ, "baileys.dlx", <<"dead", "letter">>, eff.out)
                ELSE IF eff.nack THEN BrokerNack(brokerQ, SendCommands, m)
                ELSE brokerQ
  /\ pubLog' = IF eff.dlqTried
               THEN pubLog \cup {[kind |-> "dlq", msg |-> eff.out, from |-> SendCommands,
                                  threw |-> ~eff.dlqOk,
                                  routedTo |-> IF eff.dlqOk
                                               THEN Route("baileys.dlx", <<"dead", "letter">>)
                                               ELSE {}]}
               ELSE pubLog
  /\ inflight' = RemoveAt(inflight, i)

\* startSendCommandsConsumer callback, handler rejected: handleMessageError.
HandlerFails(i, e, publishThrows) ==
  /\ i \in 1..Len(inflight)
  /\ Resolve(i, inflight[i], e, handleMessageError(inflight[i], e, chanOpen, publishThrows))
  /\ UNCHANGED <<chanOpen, published>>
  /\ ConsFrame

\* The setTimeout closure of the retry branch runs:
\* this.channel.publish('baileys.events', 'message.retry', msg.content, {headers}).
\* On a null channel the publish throws inside the timer and nothing is sent.
RetryTimerFires(t) ==
  /\ t \in timers
  /\ timers' = timers \ {t}
  /\ brokerQ' = IF chanOpen
                THEN BrokerPublish(brokerQ, "baileys.events", <<"message", "retry">>, t)
                ELSE brokerQ
  /\ pubLog' = pubLog \cup {[kind |-> "retry", msg |-> t, from |-> SendCommands,
                             threw |-> ~chanOpen,
                             routedTo |-> IF chanOpen
                                          THEN Route("baileys.events", <<"message", "retry">>)
                                          ELSE {}]}
  /\ UNCHANGED <<inflight, chanOpen, resolved, published>>
  /\ ConsFrame

\* UnifiedConsumer.stop() (or the connection's close event): the channel is
\* closed and this.channel set to null; the broker returns every unacked
\* delivery to its queue, while their callbacks are still running.
Stop ==
  /\ chanOpen
  /\ chanOpen' = FALSE
  /\ brokerQ' = [brokerQ EXCEPT ![SendCommands] = inflight \o @]
  /\ UNCHANGED <<inflight, timers, pubLog, resolved, published>>
  /\ ConsFrame

InitConsumer ==
  /\ brokerQ = [q \in QueueNames |-> <<>>]
  /\ inflight = <<>>
  /\ chanOpen = TRUE
  /\ timers = {}
  /\ pubLog = {}
  /\ resolved = {}
  /\ published = 0

NextConsumer ==
  \/ PublishCommand
  \/ Deliver
  \/ \E i \in 1..MaxMsgs : HandlerSucceeds(i)
  \/ \E i \in 1..MaxMsgs, e \in ErrorSamples, publishThrows \in BOOLEAN :
        HandlerFails(i, e, publishThrows)
  \/ \E t \in timers : RetryTimerFires(t)
  \/ Stop

\* ================================================= MessageBridge (broker -> log)
\* UnifiedProducer.publishWhatsAppMessage: exchange whatsapp.messages, routing
\* key message.received, bound to whatsapp.messages.bridge. A message whose
\* body is not JSON can only come from a foreign publisher.
PublishEvent(wellFormed) ==
  /\ eventsOut < MaxEvents
  /\ eventsOut' = eventsOut + 1
  /\ bridgeQ' = Append(bridgeQ, [eid |-> eventsOut + 1, json |-> wellFormed])
  /\ UNCHANGED <<bridgeDlq, bridgeLog, stream, lastDelivered, pel, batch, readerUp,
                 cache, disk, entryLog, crashes>>
  /\ BridgeFrame

\* RedisConsumer.addMessageToStream: the stream after the call. connect() or
\* xAdd may throw; the method catches every error and returns null.
addMessageToStream(str, ev, redisOk) ==
  IF redisOk THEN Append(str, [eid |-> ev.eid]) ELSE str

\* What MessageBridge's consume callback does with the delivery: JSON.parse,
\* await addMessageToStream (its result is not looked at), channel.ack; any
\* exception inside the try leads to channel.nack(msg, false, false).
bridgeCallback(ev, redisOk) ==
  IF ev.json
  THEN [parsed |-> TRUE, appended |-> redisOk, ack |-> TRUE, nack |-> FALSE]
  ELSE [parsed |-> FALSE, appended |-> FALSE, ack |-> FALSE, nack |-> TRUE]

\* MessageBridge.startRabbitConsumer callback on the head of the bridge queue.
BridgeDeliver(redisOk) ==
  /\ bridgeQ # <<>>
  /\ LET ev == Head(bridgeQ)
         r == bridgeCallback(ev, redisOk)
     IN /\ stream' = IF r.parsed THEN addMessageToStream(stream, ev, redisOk) ELSE stream
        /\ bridgeLog' = bridgeLog \cup
             {[eid |-> ev.eid, parsed |-> r.parsed, appended |-> r.appended,
               ack |-> r.ack, nack |-> r.nack]}
        /\ bridgeDlq' = IF r.nack THEN Append(bridgeDlq, ev) ELSE bridgeDlq
  /\ bridgeQ' = Tail(bridgeQ)
  /\ UNCHANGED <<lastDelivered, pel, batch, readerUp, cache, disk, entryLog,
                 eventsOut, crashes>>
  /\ BridgeFrame

\* ================================================== RedisConsumer (log -> store)
ReadCount == 10   \* COUNT of xReadGroup

Min(a, b) == IF a < b THEN a ELSE b

\* The entry indexes xReadGroup(group, consumer, {id: '>'}, COUNT 10) returns:
\* only entries never delivered to the group, after its last-delivered id.
xReadGroup(str, last) == (last + 1)..Min(Len(str), last + ReadCount)

SeqOfRange(lo, hi) == [k \in 1..(IF hi < lo THEN 0 ELSE hi - lo + 1) |-> lo + k - 1]

\* One iteration of the while loop of startConsuming: xReadGroup. The entries
\* returned enter the group's pending list and advance its cursor.
ReadBatch ==
  /\ readerUp
  /\ batch = <<>>
  /\ LET got == xReadGroup(stream, lastDelivered)
     IN /\ got # {}
        /\ batch' = SeqOfRange(lastDelivered + 1, lastDelivered + Cardinality(got))
        /\ pel' = pel \cup got
        /\ lastDelivered' = lastDelivered + Cardinality(got)
  /\ UNCHANGED <<bridgeQ, bridgeDlq, bridgeLog, stream, readerUp, cache, disk,
                 entryLog, eventsOut, crashes>>
  /\ BridgeFrame

\* MessageDatabase.saveMessage: [cache, disk, threw] after the call. A record
\* already in the cache is returned as is; else it is put in the cache and
\* saveToDisk writes the whole cache, or throws after the cache was updated.
saveMessage(c, d, id, diskOk) ==
  IF id \in c THEN [cache |-> c, disk |-> d, threw |-> FALSE]
  ELSE IF diskOk THEN [cache |-> c \cup {id}, disk |-> c \cup {id}, threw |-> FALSE]
  ELSE [cache |-> c \cup {id}, disk |-> d, threw |-> TRUE]

\* RedisConsumer.processMessage: whether the entry is xAck'ed, given whether
\* the storage callback threw. The catch block acknowledges as well.
processMessageAcks(callbackThrew) == IF callbackThrew THEN TRUE ELSE TRUE

\* processMessage on the next entry of the batch, with the callback of
\* MessageBridge.startRedisConsumer (saveMessage, rethrowing its error).
ProcessEntry(diskOk) ==
  /\ readerUp
  /\ batch # <<>>
  /\ LET idx == Head(batch)
         r == saveMessage(cache, disk, stream[idx].eid, diskOk)
         acked == processMessageAcks(r.threw)
     IN /\ cache' = r.cache
        /\ disk' = r.disk
        /\ pel' = IF acked THEN pel \ {idx} ELSE pel
        /\ entryLog' = entryLog \cup {[idx |-> idx, eid |-> stream[idx].eid,
                                       cbOk |-> ~r.threw, acked |-> acked]}
  /\ batch' = Tail(batch)
  /\ UNCHANGED <<bridgeQ, bridgeDlq, bridgeLog, stream, lastDelivered, readerUp,
                 eventsOut, crashes>>
  /\ BridgeFrame

\* The process running the reader dies: the batch in memory and the cache are
\* lost; the stream, the group cursor and the pending list live in Redis.
ReaderCrash ==
  /\ readerUp
  /\ crashes < MaxCrashes
  /\ crashes' = crashes + 1
  /\ readerUp' = FALSE
  /\ batch' = <<>>
  /\ cache' = {}
  /\ UNCHANGED <<bridgeQ, bridgeDlq, bridgeLog, stream, lastDelivered, pel, disk,
                 entryLog, eventsOut>>
  /\ BridgeFrame

\* The reader starts again: MessageDatabase.initialize loads the file into the
\* cache, connect() finds the group (BUSYGROUP) and the loop reads with '>'.
ReaderResume ==
  /\ ~readerUp
  /\ readerUp' = TRUE
  /\ cache' = disk
  /\ UNCHANGED <<bridgeQ, bridgeDlq, bridgeLog, stream, lastDelivered, pel, batch,
                 disk, entryLog, eventsOut, crashes>>
  /\ BridgeFrame

InitBridge ==
  /\ bridgeQ = <<>>
  /\ bridgeDlq = <<>>
  /\ bridgeLog = {}
  /\ stream = <<>>
  /\ lastDelivered = 0
  /\ pel = {}
  /\ batch = <<>>
  /\ readerUp = TRUE
  /\ cache = {}
  /\ disk = {}
  /\ entryLog = {}
  /\ eventsOut = 0
  /\ crashes = 0

NextBridge ==
  \/ \E wellFormed \in BOOLEAN : PublishEvent(wellFormed)
  \/ \E redisOk \in BOOLEAN : BridgeDeliver(redisOk)
  \/ ReadBatch
  \/ \E diskOk \in BOOLEAN : ProcessEntry(diskOk)
  \/ ReaderCrash
  \/ ReaderResume

\* ======================================================== DeadLetterQueue
Absent == [present |-> FALSE]
Idle == [step |-> "idle"]

\* The invocations that run concurrently: the periodic sweep
\* (processFailedMessages, started by the interval timer) and one more at a
\* time, which is an operator request (retry(id), retryAllMessages, clearDLQ)
\* or the next tick of the interval timer.
Callers == {"sweep", "second"}

\* The loops over a getDLQMessages snapshot.
Jobs == {"sweep", "retryAll", "clear"}

\* Error strings, by the words of isRecoverableError's two lists they contain.
DlqErrors == { {"TIMEOUT"}, {"VALIDATION_ERROR"} }

\* Routing keys handed to sendToDeadLetterQueue.
ParkedRoutingKeys == {"message.send"}

\* The retryCount handed to sendToDeadLetterQueue: records are parked with one
\* retry left or with none, so that the retry that uses up the budget and the
\* exhausted record both occur.
ParkedRetryCounts == {DLQMaxRetries - 1, DLQMaxRetries}

\* Every retryCount sendToDeadLetterQueue can be handed within the budget,
\* from its default 0 on.
AnyRetryCounts == 0..DLQMaxRetries

\* sendToDeadLetterQueue(originalMessage, originalRoutingKey, error, retryCount):
\* builds the DLQMessage with originalExchange = 'baileys.events', maxRetries =
\* config.maxRetries and both timestamps = now, and saves it under
\* dlq:message:<id>.
sendToDeadLetterQueue(id, originalMessage, originalRoutingKey, error, retryCount, t) ==
  [present |-> TRUE, id |-> id, originalExchange |-> "baileys.events",
   originalRoutingKey |-> originalRoutingKey, payload |-> originalMessage,
   error |-> error, retryCount |-> retryCount,
   maxRetries |-> DLQMaxRetries, lastErrorTimestamp |-> t]

Park(originalRoutingKey, error, retryCount) ==
  /\ parked < MaxParked
  /\ parked' = parked + 1
  /\ redisDlq' = [redisDlq EXCEPT ![parked + 1] =
                    sendToDeadLetterQueue(parked + 1, [body |-> parked + 1],
                                          originalRoutingKey, error, retryCount, now)]
  /\ budget' = [budget EXCEPT ![parked + 1].parkedWith = retryCount,
                               ![parked + 1].parkedAt = now]
  /\ UNCHANGED <<archive, retryLog, retryPc, todo, job, now>>
  /\ DlqFrame

\* A faulty variant of the check of retryMessage, for C10: off by one.
retryRefusedOffByOne(dlqMessage) == dlqMessage.retryCount > dlqMessage.maxRetries

\* retryMessage, the check after the load: refuse a record that used up its
\* retries.
retryRefused(dlqMessage) == dlqMessage.retryCount >= dlqMessage.maxRetries

\* retryMessage, the update before the save.
retryBump(dlqMessage, t) ==
  [dlqMessage EXCEPT !.retryCount = @ + 1, !.lastErrorTimestamp = t]

\* retryMessage(messageId), first await: getDLQMessageFromRedis. A missing or
\* exhausted record ends the call with false.
RetryLoad(c, id) ==
  /\ retryPc[c].step = "idle"
  /\ retryPc' = [retryPc EXCEPT ![c] =
       IF ~redisDlq[id].present \/ retryRefused(redisDlq[id]) THEN Idle
       ELSE [step |-> "loaded", msg |-> redisDlq[id]]]

\* retryMessage, second await: retryCount++, lastErrorTimestamp = now,
\* saveDLQMessageToRedis of the local copy.
RetrySave(c) ==
  /\ retryPc[c].step = "loaded"
  /\ LET m == retryBump(retryPc[c].msg, now)
     IN /\ redisDlq' = [redisDlq EXCEPT ![m.id] = m]
        /\ retryPc' = [retryPc EXCEPT ![c] = [step |-> "saved", msg |-> m]]
  /\ UNCHANGED <<archive, retryLog, todo, job, now, parked, budget>>
  /\ DlqFrame

\* A faulty variant of retryPublication, for C15: it republishes to the
\* dead-letter exchange and reports success whatever the publish returned.
retryPublicationToDlx(dlqMessage, publishOk) ==
  [id |-> dlqMessage.id, exchange |-> "baileys.dlx", key |-> "dead.letter",
   content |-> dlqMessage.payload, published |-> publishOk, returned |-> TRUE]

\* retryMessage, after the save: channel.publish(originalExchange,
\* originalRoutingKey, JSON of the payload) and the value the call returns.
retryPublication(dlqMessage, publishOk) ==
  [id |-> dlqMessage.id, exchange |-> dlqMessage.originalExchange,
   key |-> dlqMessage.originalRoutingKey, content |-> dlqMessage.payload,
   published |-> publishOk, returned |-> publishOk]

RetryPublish(c, publishOk) ==
  /\ retryPc[c].step = "saved"
  /\ retryLog' = retryLog \cup {retryPublication(retryPc[c].msg, publishOk)}
  /\ budget' = IF publishOk
               THEN [budget EXCEPT ![retryPc[c].msg.id].republished = @ + 1]
               ELSE budget
  /\ retryPc' = [retryPc EXCEPT ![c] = Idle]
  /\ UNCHANGED <<redisDlq, archive, todo, job, now, parked>>
  /\ DlqFrame

\* An operator calls retry(id).
OperatorRetry(id) ==
  /\ todo["second"] = {}
  /\ RetryLoad("second", id)
  /\ UNCHANGED <<redisDlq, archive, retryLog, todo, job, now, parked, budget>>
  /\ DlqFrame

\* ============================================================= DLQManager
NonRecoverableErrors ==
  {"AUTHENTICATION_ERROR", "INVALID_MESSAGE_FORMAT", "VALIDATION_ERROR",
   "PERMISSION_DENIED", "NOT_FOUND"}

RecoverableErrors ==
  {"CONNECTION_RESET", "TIMEOUT", "NETWORK_ERROR", "TEMPORARY_FAILURE",
   "RATE_LIMIT", "SERVICE_UNAVAILABLE"}

\* A faulty variant of isRecoverableError, for C13: the allow-list is looked
\* at first.
isRecoverableErrorAllowFirst(error) ==
  IF error \cap RecoverableErrors # {} THEN TRUE
  ELSE IF error \cap NonRecoverableErrors # {} THEN FALSE
  ELSE TRUE

\* isRecoverableError: the deny-list is checked first, then the allow-list;
\* anything else counts as recoverable. error is the set of list words the
\* error string includes.
isRecoverableError(error) ==
  IF error \cap NonRecoverableErrors # {} THEN FALSE
  ELSE IF error \cap RecoverableErrors # {} THEN TRUE
  ELSE TRUE

\* shouldRetryMessage(message) at time t
shouldRetryMessage(message, t) ==
  IF message.retryCount >= message.maxRetries THEN FALSE
  ELSE IF t - message.lastErrorTimestamp < MinRetryDelay THEN FALSE
  ELSE isRecoverableError(message.error)

\* getDLQMessages: the records under dlq:message:*, as loaded.
getDLQMessages == { redisDlq[i] : i \in { j \in RecIds : redisDlq[j].present } }

\* The records a loop may take next: getDLQMessages sorts by
\* lastErrorTimestamp, latest first; ties keep the order of the key scan.
NextOf(set) == { m \in set : \A o \in set : o.lastErrorTimestamp <= m.lastErrorTimestamp }

\* A caller has a loop or a retryMessage call in progress.
Busy(c) == job[c] # "none" \/ retryPc[c].step # "idle"

\* processFailedMessages / retryAllMessages / clearDLQ: the load of the
\* snapshot. The setInterval callback of startProcessing calls
\* processFailedMessages without looking at whether the previous run ended, so
\* a tick that fires while the sweep is busy starts another one.
LoopStart(c, kind) ==
  /\ ~Busy(c)
  /\ c = "sweep" => kind = "sweep"
  /\ (c = "second" /\ kind = "sweep") => Busy("sweep")
  /\ getDLQMessages # {}
  /\ todo' = [todo EXCEPT ![c] = getDLQMessages]
  /\ job' = [job EXCEPT ![c] = kind]
  /\ UNCHANGED <<redisDlq, archive, retryLog, retryPc, now, parked, budget>>
  /\ DlqFrame

\* The loop of caller c takes message off its snapshot; it ends with the last.
TakeFromSnapshot(c, message) ==
  /\ todo' = [todo EXCEPT ![c] = @ \ {message}]
  /\ job' = [job EXCEPT ![c] = IF todo[c] = {message} THEN "none" ELSE @]

\* archiveMessage: lpush to the day's list; an error of the write is caught
\* and logged inside archiveMessage.
archiveMessage(arch, message, archiveOk) ==
  IF archiveOk THEN arch \cup {message.id} ELSE arch

\* discardMessage, and the body of clearDLQ's loop: archiveMessage, then del
\* of the key.
discardMessage(message, archiveOk) ==
  /\ archive' = archiveMessage(archive, message, archiveOk)
  /\ redisDlq' = [redisDlq EXCEPT ![message.id] = Absent]

\* One iteration of the sweep: retry the record if shouldRetryMessage says so
\* on the snapshot, else discard it.
SweepStep(c, archiveOk) ==
  /\ job[c] = "sweep"
  /\ retryPc[c].step = "idle"
  /\ \E message \in NextOf(todo[c]) :
       /\ TakeFromSnapshot(c, message)
       /\ IF shouldRetryMessage(message, now)
          THEN /\ RetryLoad(c, message.id)
               /\ UNCHANGED <<redisDlq, archive>>
          ELSE /\ discardMessage(message, archiveOk)
               /\ UNCHANGED retryPc
  /\ UNCHANGED <<retryLog, now, parked, budget>>
  /\ DlqFrame

\* One iteration of retryAllMessages: retry when the snapshot has retries left.
RetryAllStep ==
  /\ job["second"] = "retryAll"
  /\ retryPc["second"].step = "idle"
  /\ \E message \in NextOf(todo["second"]) :
       /\ TakeFromSnapshot("second", message)
       /\ IF message.retryCount < message.maxRetries
          THEN RetryLoad("second", message.id)
          ELSE UNCHANGED retryPc
  /\ UNCHANGED <<redisDlq, archive, retryLog, now, parked, budget>>
  /\ DlqFrame

\* One iteration of clearDLQ: archiveMessage, then del of the key.
ClearStep(archiveOk) ==
  /\ job["second"] = "clear"
  /\ \E message \in NextOf(todo["second"]) :
       /\ TakeFromSnapshot("second", message)
       /\ discardMessage(message, archiveOk)
  /\ UNCHANGED <<retryLog, retryPc, now, parked, budget>>
  /\ DlqFrame

Tick ==
  /\ now < MaxNow
  /\ now' = now + 1
  /\ UNCHANGED <<redisDlq, archive, retryLog, retryPc, todo, job, parked, budget>>
  /\ DlqFrame

InitDLQ ==
  /\ redisDlq = [i \in RecIds |-> Absent]
  /\ archive = {}
  /\ retryLog = {}
  /\ retryPc = [c \in Callers |-> Idle]
  /\ todo = [c \in Callers |-> {}]
  /\ job = [c \in Callers |-> "none"]
  /\ now = 0
  /\ parked = 0
  /\ budget = [i \in RecIds |-> [parkedWith |-> 0, parkedAt |-> 0, republished |-> 0]]

\* What runs on the store once records are parked.
DlqSteps ==
  \/ \E id \in RecIds : OperatorRetry(id)
  \/ \E c \in Callers : RetrySave(c)
  \/ \E c \in Callers, publishOk \in BOOLEAN : RetryPublish(c, publishOk)
  \/ \E c \in Callers, kind \in Jobs : LoopStart(c, kind)
  \/ \E c \in Callers, archiveOk \in BOOLEAN : SweepStep(c, archiveOk)
  \/ RetryAllStep
  \/ \E archiveOk \in BOOLEAN : ClearStep(archiveOk)
  \/ Tick

NextDLQ ==
  \/ \E key \in ParkedRoutingKeys, error \in DlqErrors, retryCount \in ParkedRetryCounts :
        Park(key, error, retryCount)
  \/ DlqSteps

\* The same store, with records parked at any retryCount.
NextRepublish ==
  \/ \E key \in ParkedRoutingKeys, error \in DlqErrors, retryCount \in AnyRetryCounts :
        Park(key, error, retryCount)
  \/ DlqSteps

\* ------------------------------------------- the sweep's decision, alone
\* Error strings by the list words they include: none, one of either list,
\* or words of both lists.
DecisionErrors == SUBSET {"TIMEOUT", "RATE_LIMIT", "VALIDATION_ERROR", "NOT_FOUND"}

\* The records and times the decision is looked at on.
AllProbes ==
  { [message |-> [retryCount |-> rc, maxRetries |-> DLQMaxRetries,
                  lastErrorTimestamp |-> last, error |-> e],
     t |-> t] :
      rc \in 0..DLQMaxRetries, last \in 0..MaxNow, t \in 0..MaxNow, e \in DecisionErrors }

\* The clock is never behind a record's lastErrorTimestamp.
Probes == { p \in AllProbes : p.message.lastErrorTimestamp <= p.t }

\* The if of processFailedMessages' loop body: retryMessage when
\* shouldRetryMessage resolves to true, discardMessage otherwise.
Decide ==
  /\ verdict = "none"
  /\ verdict' = IF shouldRetryMessage(probe.message, probe.t) THEN "retry" ELSE "discard"
  /\ UNCHANGED <<probe, backoff>>
  /\ DecFrame

\* The next record of the snapshot is looked at.
NextProbe(p) ==
  /\ verdict # "none"
  /\ probe' = p
  /\ verdict' = "none"
  /\ UNCHANGED backoff
  /\ DecFrame

\* Before the first record: a fresh record with no list word in its error.
InitDecision ==
  /\ probe = [message |-> [retryCount |-> 0, maxRetries |-> DLQMaxRetries,
                           lastErrorTimestamp |-> 0, error |-> {}],
              t |-> 0]
  /\ verdict = "none"
  /\ backoff = [error |-> "none", retryCount |-> 0, action |-> "none",
                delay |-> 0, sendDelay |-> 0]

\* QueueManager.sendMessage: the wait after failed attempt number `attempt`
\* (retryDelay 1000, exponentialBackoff true in DEFAULT_RETRY_CONFIG).
sendMessageDelay(attempt) == ConfigRetryDelay * Pow2(attempt - 1)

\* handleError(error, context, currentRetryCount) and the delay
\* calculateRetryDelay gives for the error's classification.
DelayProbe(e, rc) ==
  /\ backoff' = [error |-> e, retryCount |-> rc,
                 action |-> handleError(ErrorByName(e), rc).action,
                 delay |-> calculateRetryDelay(analyzeError(ErrorByName(e)), rc),
                 sendDelay |-> sendMessageDelay(rc + 1)]
  /\ UNCHANGED <<probe, verdict>>
  /\ DecFrame

NextDecision ==
  \/ Decide
  \/ \E p \in Probes : NextProbe(p)

NextBackoff ==
  \E e \in ErrorNames, rc \in 0..MaxRetryCount : DelayProbe(e, rc)

\* ================================================== CircuitBreakerService
\* The clock moves in steps of a third of the cooldown.
CbStep == CbCooldownTime \div 3

\* Math.ceil(ms / 1000) for ms >= 0
CeilSeconds(ms) == (ms + 999) \div 1000

\* execute / executeSync, the guard: isOpen && Date.now() < nextTryTime
CbRejects(s, t) == s.isOpen /\ t < s.nextTryTime

\* The remaining seconds in the message of the rejection.
remainingTime(s, t) == CeilSeconds(s.nextTryTime - t)

\* onSuccess
onSuccess(s) == [s EXCEPT !.failureCount = 0, !.isOpen = FALSE]

\* open
open(s, t) == [s EXCEPT !.isOpen = TRUE, !.nextTryTime = t + CbCooldownTime]

\* A faulty variant of onFailure, for C16: it opens one failure late.
onFailureOpeningLate(s, t) ==
  IF s.failureCount + 1 > CbThreshold
  THEN open([s EXCEPT !.failureCount = @ + 1], t)
  ELSE [s EXCEPT !.failureCount = @ + 1]

\* A faulty variant of onFailure, for C18: a breaker that is already open
\* keeps its nextTryTime.
onFailureKeepingCooldown(s, t) ==
  IF s.failureCount + 1 >= CbThreshold /\ ~s.isOpen
  THEN open([s EXCEPT !.failureCount = @ + 1], t)
  ELSE [s EXCEPT !.failureCount = @ + 1]

\* onFailure at time t
onFailure(s, t) ==
  IF s.failureCount + 1 >= CbThreshold
  THEN open([s EXCEPT !.failureCount = @ + 1], t)
  ELSE [s EXCEPT !.failureCount = @ + 1]

\* A faulty variant of the guard's effect, for C17: the rejection is thrown
\* after the action was started.
cbAdmitsWhenRejecting(rejects) == TRUE

\* Whether execute goes on to call action() given what its guard found.
cbAdmits(rejects) == ~rejects

\* execute(action) up to its await: the guard throws, or action() is called
\* and the execution waits for it. after tells a call let through an open
\* breaker (cooldown elapsed) from one that found it closed.
CbBegin ==
  /\ cbCalls < MaxCbCalls
  /\ cbInFlight.closed + cbInFlight.after < MaxCbInFlight
  /\ cbCalls' = cbCalls + 1
  /\ cbInFlight' =
       IF ~cbAdmits(CbRejects(cb, cbNow)) THEN cbInFlight
       ELSE IF cb.isOpen THEN [cbInFlight EXCEPT !.after = @ + 1]
       ELSE [cbInFlight EXCEPT !.closed = @ + 1]
  /\ cbLast' =
       IF CbRejects(cb, cbNow)
       THEN [kind |-> "rejected", after |-> FALSE, at |-> cbNow, open |-> cb.isOpen,
             remaining |-> remainingTime(cb, cbNow)]
       ELSE [kind |-> "admitted", after |-> cb.isOpen, at |-> cbNow, open |-> cb.isOpen, remaining |-> 0]
  /\ UNCHANGED <<cb, cbNow, cbStreak>>
  /\ CbFrame

\* execute(action) after its await: onSuccess, or onFailure and rethrow.
CbComplete(after, ok) ==
  /\ IF after THEN cbInFlight.after > 0 ELSE cbInFlight.closed > 0
  /\ cbInFlight' = IF after THEN [cbInFlight EXCEPT !.after = @ - 1]
                   ELSE [cbInFlight EXCEPT !.closed = @ - 1]
  /\ cb' = IF ok THEN onSuccess(cb) ELSE onFailure(cb, cbNow)
  /\ cbStreak' = IF ok THEN 0 ELSE cbStreak + 1
  /\ cbLast' = [kind |-> IF ok THEN "succeeded" ELSE "failed", after |-> after,
                at |-> cbNow, open |-> cb.isOpen, remaining |-> 0]
  /\ UNCHANGED <<cbNow, cbCalls>>
  /\ CbFrame

\* executeSync(action): the same guard, and action() runs to its end within
\* the call.
CbExecuteSync(ok) ==
  /\ cbCalls < MaxCbCalls
  /\ cbCalls' = cbCalls + 1
  /\ IF ~cbAdmits(CbRejects(cb, cbNow))
     THEN /\ cbLast' = [kind |-> "rejected", after |-> FALSE, at |-> cbNow, open |-> cb.isOpen,
                        remaining |-> remainingTime(cb, cbNow)]
          /\ UNCHANGED <<cb, cbStreak>>
     ELSE /\ cb' = IF ok THEN onSuccess(cb) ELSE onFailure(cb, cbNow)
          /\ cbStreak' = IF ok THEN 0 ELSE cbStreak + 1
          /\ cbLast' = [kind |-> IF ok THEN "succeeded" ELSE "failed",
                        after |-> cb.isOpen, at |-> cbNow, open |-> cb.isOpen, remaining |-> 0]
  /\ UNCHANGED <<cbNow, cbInFlight>>
  /\ CbFrame

\* forceReset
forceReset ==
  /\ cb' = [failureCount |-> 0, isOpen |-> FALSE, nextTryTime |-> 0]
  /\ cbStreak' = 0
  /\ cbLast' = [kind |-> "reset", after |-> FALSE, at |-> cbNow, open |-> cb.isOpen, remaining |-> 0]
  /\ UNCHANGED <<cbNow, cbInFlight, cbCalls>>
  /\ CbFrame

CbTick ==
  /\ cbNow < MaxCbTicks * CbStep
  /\ cbNow' = cbNow + CbStep
  /\ UNCHANGED <<cb, cbInFlight, cbCalls, cbStreak, cbLast>>
  /\ CbFrame

InitBreaker ==
  /\ cb = [failureCount |-> 0, isOpen |-> FALSE, nextTryTime |-> 0]
  /\ cbNow = 0
  /\ cbInFlight = [closed |-> 0, after |-> 0]
  /\ cbCalls = 0
  /\ cbStreak = 0
  /\ cbLast = [kind |-> "none", after |-> FALSE, at |-> 0, open |-> FALSE, remaining |-> 0]

NextBreaker ==
  \/ CbBegin
  \/ \E after \in BOOLEAN, ok \in BOOLEAN : CbComplete(after, ok)
  \/ \E ok \in BOOLEAN : CbExecuteSync(ok)
  \/ forceReset
  \/ CbTick

\* ============================================================= RateLimiter
\* Keys are `${sessionId}:${to}` as SessionManager.sendMessage builds them.
LimKeys == {"s1:a", "s1:b"}
LimContents == {"oi", "tchau"}

\* The clock moves in steps of half a window.
LimStep == RATE_LIMIT_WINDOW \div 2

DuplicateReason == "Mensagem duplicada detectada"
LimitReason == "Limite de mensagens atingido"

LimEntry(t, count, content) ==
  [present |-> TRUE, lastMessageTime |-> t, messageCount |-> count,
   lastMessageContent |-> content]

LimResult(map, allowed, reason, timeRemaining) ==
  [map |-> map, allowed |-> allowed, reason |-> reason,
   retryAfter |-> timeRemaining, timeRemaining |-> timeRemaining]

\* canSendMessage with the window test made inclusive (<=).
canSendMessageWindowInclusive(map, key, content, t) ==
  IF ~map[key].present THEN
    LimResult([map EXCEPT ![key] = LimEntry(t, 1, content)], TRUE, "none", 0)
  ELSE IF t - map[key].lastMessageTime <= RATE_LIMIT_WINDOW THEN
    IF map[key].lastMessageContent = content THEN
      LimResult(map, FALSE, DuplicateReason,
                RATE_LIMIT_WINDOW - (t - map[key].lastMessageTime))
    ELSE IF map[key].messageCount >= MAX_MESSAGES_PER_WINDOW THEN
      LimResult(map, FALSE, LimitReason,
                RATE_LIMIT_WINDOW - (t - map[key].lastMessageTime))
    ELSE
      LimResult([map EXCEPT ![key] =
                   LimEntry(t, map[key].messageCount + 1, content)],
                TRUE, "none", 0)
  ELSE
    LimResult([map EXCEPT ![key] = LimEntry(t, 1, content)], TRUE, "none", 0)

\* canSendMessage with the message limit test made exclusive (>).
canSendMessageLimitExclusive(map, key, content, t) ==
  IF ~map[key].present THEN
    LimResult([map EXCEPT ![key] = LimEntry(t, 1, content)], TRUE, "none", 0)
  ELSE IF t - map[key].lastMessageTime < RATE_LIMIT_WINDOW THEN
    IF map[key].lastMessageContent = content THEN
      LimResult(map, FALSE, DuplicateReason,
                RATE_LIMIT_WINDOW - (t - map[key].lastMessageTime))
    ELSE IF map[key].messageCount > MAX_MESSAGES_PER_WINDOW THEN
      LimResult(map, FALSE, LimitReason,
                RATE_LIMIT_WINDOW - (t - map[key].lastMessageTime))
    ELSE
      LimResult([map EXCEPT ![key] =
                   LimEntry(t, map[key].messageCount + 1, content)],
                TRUE, "none", 0)
  ELSE
    LimResult([map EXCEPT ![key] = LimEntry(t, 1, content)], TRUE, "none", 0)

\* canSendMessage with a count that an allowed send inside the window leaves
\* as it is.
canSendMessageWithNotCounting(max, map, key, content, t) ==
  IF ~map[key].present THEN
    LimResult([map EXCEPT ![key] = LimEntry(t, 1, content)], TRUE, "none", 0)
  ELSE IF t - map[key].lastMessageTime < RATE_LIMIT_WINDOW THEN
    IF map[key].lastMessageContent = content THEN
      LimResult(map, FALSE, DuplicateReason,
                RATE_LIMIT_WINDOW - (t - map[key].lastMessageTime))
    ELSE IF map[key].messageCount >= max THEN
      LimResult(map, FALSE, LimitReason,
                RATE_LIMIT_WINDOW - (t - map[key].lastMessageTime))
    ELSE
      LimResult([map EXCEPT ![key] =
                   LimEntry(t, map[key].messageCount, content)],
                TRUE, "none", 0)
  ELSE
    LimResult([map EXCEPT ![key] = LimEntry(t, 1, content)], TRUE, "none", 0)

\* canSendMessage(key, content) at Date.now() = t, with max as
\* this.MAX_MESSAGES_PER_WINDOW: the result and the map it leaves.
canSendMessageWith(max, map, key, content, t) ==
  IF ~map[key].present THEN
    LimResult([map EXCEPT ![key] = LimEntry(t, 1, content)], TRUE, "none", 0)
  ELSE IF t - map[key].lastMessageTime < RATE_LIMIT_WINDOW THEN
    IF map[key].lastMessageContent = content THEN
      LimResult(map, FALSE, DuplicateReason,
                RATE_LIMIT_WINDOW - (t - map[key].lastMessageTime))
    ELSE IF map[key].messageCount >= max THEN
      LimResult(map, FALSE, LimitReason,
                RATE_LIMIT_WINDOW - (t - map[key].lastMessageTime))
    ELSE
      LimResult([map EXCEPT ![key] =
                   LimEntry(t, map[key].messageCount + 1, content)],
                TRUE, "none", 0)
  ELSE
    LimResult([map EXCEPT ![key] = LimEntry(t, 1, content)], TRUE, "none", 0)

\* canSendMessage with the fallback configuration.
canSendMessage(map, key, content, t) ==
  canSendMessageWith(MAX_MESSAGES_PER_WINDOW, map, key, content, t)

\* The latest allowed send of any content from key, -1 if none.
LastSentAny(sent, key) ==
  CHOOSE t \in {sent[key][c] : c \in LimContents} :
    \A c \in LimContents : sent[key][c] <= t

NeverSent == [c \in LimContents |-> -1]

\* One canSendMessage call.
LimCall(key, content) ==
  /\ limCalls < MaxLimCalls
  /\ LET r == canSendMessage(rateLimitMap, key, content, limNow) IN
       /\ rateLimitMap' = r.map
       /\ limLast' = [kind |-> "call", key |-> key, content |-> content,
                      at |-> limNow, allowed |-> r.allowed, reason |-> r.reason,
                      timeRemaining |-> r.timeRemaining,
                      prevSame |-> limSent[key][content],
                      prevAny |-> LastSentAny(limSent, key)]
       /\ limSent' = IF r.allowed
                       THEN [limSent EXCEPT ![key][content] = limNow]
                       ELSE limSent
  /\ limCalls' = limCalls + 1
  /\ UNCHANGED limNow
  /\ UNCHANGED <<sendFailed, sendLast, limMax, limHistory>>
  /\ LimFrame

NoCall ==
  [kind |-> "none", key |-> "none", content |-> "none", at |-> 0,
   allowed |-> FALSE, reason |-> "none", timeRemaining |-> 0,
   prevSame |-> -1, prevAny |-> -1]

\* resetForRecipient(sessionId, recipient)
resetForRecipient(key) ==
  /\ rateLimitMap[key].present
  /\ rateLimitMap' = [rateLimitMap EXCEPT ![key] = Absent]
  /\ limSent' = [limSent EXCEPT ![key] = NeverSent]
  /\ limLast' = [NoCall EXCEPT !.kind = "reset", !.key = key, !.at = limNow]
  /\ UNCHANGED <<limNow, limCalls>>
  /\ UNCHANGED <<sendFailed, sendLast, limMax, limHistory>>
  /\ LimFrame

\* reset()
reset ==
  /\ \E k \in LimKeys : rateLimitMap[k].present
  /\ rateLimitMap' = [k \in LimKeys |-> Absent]
  /\ limSent' = [k \in LimKeys |-> NeverSent]
  /\ limLast' = [NoCall EXCEPT !.kind = "reset", !.at = limNow]
  /\ UNCHANGED <<limNow, limCalls>>
  /\ UNCHANGED <<sendFailed, sendLast, limMax, limHistory>>
  /\ LimFrame

\* cleanup(): entries older than twice the window are deleted.
Stale(map, k, t) ==
  map[k].present /\ t - map[k].lastMessageTime > RATE_LIMIT_WINDOW * 2

cleanup ==
  /\ \E k \in LimKeys : Stale(rateLimitMap, k, limNow)
  /\ rateLimitMap' = [k \in LimKeys |->
                        IF Stale(rateLimitMap, k, limNow) THEN Absent
                        ELSE rateLimitMap[k]]
  /\ UNCHANGED <<limNow, limCalls, limSent, limLast>>
  /\ UNCHANGED <<sendFailed, sendLast, limMax, limHistory>>
  /\ LimFrame

LimTick ==
  /\ limNow < MaxLimTicks * LimStep
  /\ limNow' = limNow + LimStep
  /\ UNCHANGED <<rateLimitMap, limCalls, limSent, limLast>>
  /\ UNCHANGED <<sendFailed, sendLast, limMax, limHistory>>
  /\ LimFrame

InitLimiter ==
  /\ rateLimitMap = [k \in LimKeys |-> Absent]
  /\ limNow = 0
  /\ limCalls = 0
  /\ limSent = [k \in LimKeys |-> NeverSent]
  /\ limLast = NoCall

NextLimiter ==
  \/ \E key \in LimKeys, content \in LimContents : LimCall(key, content)
  \/ \E key \in LimKeys : resetForRecipient(key)
  \/ reset
  \/ cleanup
  \/ LimTick

\* ================================== SessionManager.sendMessage, end to end
\* How a send the limiter admitted goes on: the provider's send returns, the
\* session is not in activeSessions, the breaker is open, the provider's
\* send throws.
SendOutcomes == {"sent", "noSession", "breakerOpen", "providerError"}

\* SessionManager.sendMessage(sessionId, to, content): canSendMessage first;
\* a refusal returns {success: false, error: 'RATE_LIMIT_EXCEEDED'} without
\* throwing; then the session lookup (throws), the breaker-guarded
\* session.sendMessage (throws when open or when the provider throws). The
\* catch block logs and rethrows.
sendMessage(map, key, content, t, outcome) ==
  [map |-> canSendMessage(map, key, content, t).map,
   allowed |-> canSendMessage(map, key, content, t).allowed,
   provider |-> canSendMessage(map, key, content, t).allowed
                  /\ outcome \in {"sent", "providerError"},
   threw |-> canSendMessage(map, key, content, t).allowed /\ outcome # "sent",
   success |-> canSendMessage(map, key, content, t).allowed /\ outcome = "sent"]

\* UnifiedConsumer.handleSendMessage awaits sessionManager.sendMessage, logs
\* result.key?.id and returns; it rethrows what sendMessage threw. The
\* callback of startSendCommandsConsumer acks when it returned.
handleSendMessageAcks(sent) == ~sent.threw

\* This call repeats, inside the window, the content of the key's last
\* admitted send, and that send failed.
RetryOfFailed(key, content) ==
  /\ sendFailed[key]
  /\ rateLimitMap[key].present
  /\ rateLimitMap[key].lastMessageContent = content
  /\ limNow - rateLimitMap[key].lastMessageTime < RATE_LIMIT_WINDOW

NoSend ==
  [kind |-> "none", key |-> "none", content |-> "none", at |-> 0, outcome |-> "none",
   allowed |-> FALSE, provider |-> FALSE, threw |-> FALSE, success |-> FALSE,
   acked |-> FALSE, retryOfFailed |-> FALSE]

\* A send command for key and content is consumed: handleSendMessage, then
\* the ack or handleMessageError.
SendCommand(key, content, outcome) ==
  /\ limCalls < MaxLimCalls
  /\ limCalls' = limCalls + 1
  /\ rateLimitMap' = sendMessage(rateLimitMap, key, content, limNow, outcome).map
  /\ sendLast' =
       [kind |-> "send", key |-> key, content |-> content, at |-> limNow,
        outcome |-> outcome,
        allowed |-> sendMessage(rateLimitMap, key, content, limNow, outcome).allowed,
        provider |-> sendMessage(rateLimitMap, key, content, limNow, outcome).provider,
        threw |-> sendMessage(rateLimitMap, key, content, limNow, outcome).threw,
        success |-> sendMessage(rateLimitMap, key, content, limNow, outcome).success,
        acked |-> handleSendMessageAcks(
                    sendMessage(rateLimitMap, key, content, limNow, outcome)),
        retryOfFailed |-> RetryOfFailed(key, content)]
  /\ sendFailed' =
       IF sendMessage(rateLimitMap, key, content, limNow, outcome).allowed
       THEN [sendFailed EXCEPT ![key] =
               sendMessage(rateLimitMap, key, content, limNow, outcome).threw]
       ELSE sendFailed
  /\ UNCHANGED <<limNow, limSent, limLast, limMax, limHistory>>
  /\ LimFrame

InitSend ==
  /\ sendFailed = [k \in LimKeys |-> FALSE]
  /\ sendLast = NoSend

NextSend ==
  \/ \E key \in LimKeys, content \in LimContents, outcome \in SendOutcomes :
        SendCommand(key, content, outcome)
  \/ LimTick

\* ======================================= RateLimiter, any configured limit
\* new RateLimiter(): MAX_MESSAGES_PER_WINDOW is read from the environment
\* before any call is made.
RateLimiterConfigured(max) ==
  /\ limCalls = 0
  /\ limNow = 0
  /\ limMax' = max
  /\ UNCHANGED <<rateLimitMap, limNow, limCalls, limSent, limLast, sendFailed, sendLast,
                 limHistory>>
  /\ LimFrame

\* One canSendMessage call under the configured limit.
WindowCall(key, content) ==
  /\ limCalls < MaxLimCalls
  /\ limCalls' = limCalls + 1
  /\ rateLimitMap' = canSendMessageWith(limMax, rateLimitMap, key, content, limNow).map
  /\ limHistory' =
       [limHistory EXCEPT ![key] =
          IF canSendMessageWith(limMax, rateLimitMap, key, content, limNow).allowed
          THEN [@ EXCEPT !.allowed = Append(@, limNow)]
          ELSE IF canSendMessageWith(limMax, rateLimitMap, key, content, limNow).reason
                    = LimitReason
          THEN [@ EXCEPT !.limited = TRUE]
          ELSE @]
  /\ UNCHANGED <<limNow, limSent, limLast, sendFailed, sendLast, limMax>>
  /\ LimFrame

InitWindow ==
  /\ limMax = MAX_MESSAGES_PER_WINDOW
  /\ limHistory = [k \in LimKeys |-> [allowed |-> <<>>, limited |-> FALSE]]

NextWindow ==
  \/ \E max \in 1..MaxLimMax : RateLimiterConfigured(max)
  \/ \E key \in LimKeys, content \in LimContents : WindowCall(key, content)
  \/ LimTick

\* ========================================================= broker topology
\* Exchanges and queues by name. "absent" is a name the broker does not know.
DlqStoreQueue == "baileys.dlq"
TenantQueue == "empresa.queue"
CustomQueue == "custom.queue"
CustomDlq == "custom.queue.dlq"
TopoExchanges ==
  {"baileys.events", "whatsapp.messages", "whatsapp.commands", "baileys.dlx",
   "custom.queue.dlx"}
TopoQueues ==
  {SendCommands, MessageBridgeQ, InstanceQueue, DeadLetterQ, DlqStoreQueue,
   TenantQueue, CustomQueue, CustomDlq}

\* The application queues, as opposed to the dead-letter queues themselves.
ApplicationQueues ==
  {SendCommands, MessageBridgeQ, InstanceQueue, TenantQueue, CustomQueue}

\* The arguments a queue is declared with (all declarations are durable,
\* non-exclusive, non-auto-delete).
DlxArgs == "x-dead-letter-exchange=baileys.dlx,x-dead-letter-routing-key=dead.letter"
TtlArgs == "x-message-ttl=86400000,x-max-length=10000"
NoArgs == "{}"

assertExchange(name, type) ==
  [op |-> "assertExchange", name |-> name, arg |-> type, to |-> "", key |-> ""]
assertQueue(name, args) ==
  [op |-> "assertQueue", name |-> name, arg |-> args, to |-> "", key |-> ""]
bindQueue(queue, exchange, key) ==
  [op |-> "bindQueue", name |-> queue, arg |-> "", to |-> exchange, key |-> key]
\* try { checkQueue(name) } catch { assertQueue(name, args) }
checkElseAssertQueue(name, args) ==
  [op |-> "checkQueue", name |-> name, arg |-> args, to |-> "", key |-> ""]

\* The broker's answer to one declaration: redeclaring with the same type or
\* arguments is a no-op, with other ones a PRECONDITION_FAILED channel error;
\* checkQueue of an unknown queue is a NOT_FOUND channel error. A channel
\* error closes the channel.
StepOk(t, s) ==
  CASE s.op = "assertExchange" -> t.exchanges[s.name] \in {"absent", s.arg}
    [] s.op = "assertQueue"    -> t.queues[s.name] \in {"absent", s.arg}
    [] s.op = "bindQueue"      -> t.queues[s.name] # "absent" /\ t.exchanges[s.to] # "absent"
    [] s.op = "checkQueue"     -> t.queues[s.name] # "absent"

StepApply(t, s) ==
  CASE s.op = "assertExchange" -> [t EXCEPT !.exchanges[s.name] = s.arg]
    [] s.op = "assertQueue"    -> [t EXCEPT !.queues[s.name] = s.arg]
    [] s.op = "bindQueue"      ->
         [t EXCEPT !.bindings = @ \cup {[queue |-> s.name, exchange |-> s.to, key |-> s.key]}]
    [] s.op = "checkQueue"     -> t

\* A component's declarations run in order on its channel; the first one the
\* broker refuses closes the channel, so none after it is made.
RECURSIVE RunSteps(_, _)
RunSteps(steps, t) ==
  IF steps = <<>> THEN [topo |-> t, failed |-> {}]
  ELSE IF StepOk(t, Head(steps)) THEN RunSteps(Tail(steps), StepApply(t, Head(steps)))
  ELSE [topo |-> t, failed |-> {Head(steps)}]

\* UnifiedProducer.connect, the declarations made on a new channel.
ProducerSteps ==
  << assertExchange("baileys.events", "topic"),
     assertExchange("whatsapp.messages", "topic"),
     assertExchange("whatsapp.commands", "topic"),
     assertExchange("baileys.dlx", "direct"),
     assertQueue(SendCommands, DlxArgs),
     assertQueue(MessageBridgeQ, DlxArgs),
     bindQueue(MessageBridgeQ, "whatsapp.messages", "message.received") >>

\* UnifiedConsumer.connect: exchanges, setupDeadLetterQueue, setupQueues
\* (with setupEmpresaQueues after the command queue).
ConsumerSteps ==
  << assertExchange("baileys.events", "topic"),
     assertExchange("whatsapp.messages", "topic"),
     assertExchange("baileys.dlx", "direct"),
     assertQueue(DeadLetterQ, NoArgs),
     bindQueue(DeadLetterQ, "baileys.dlx", "dead.letter"),
     assertQueue(SendCommands, IF DlqEnabled THEN DlxArgs ELSE NoArgs),
     checkElseAssertQueue(TenantQueue, IF DlqEnabled THEN DlxArgs ELSE NoArgs),
     assertQueue(MessageBridgeQ, IF DlqEnabled THEN DlxArgs ELSE NoArgs),
     assertQueue(InstanceQueue, IF DlqEnabled THEN DlxArgs ELSE NoArgs),
     bindQueue(InstanceQueue, "baileys.events", "instance.create"),
     bindQueue(InstanceQueue, "baileys.events", "instance.delete"),
     bindQueue(InstanceQueue, "baileys.events", "instance.default.*") >>

\* MessageBridge.connect
BridgeSteps ==
  << assertExchange("whatsapp.messages", "topic"),
     assertExchange("baileys.dlx", "direct"),
     assertQueue(MessageBridgeQ, DlxArgs),
     bindQueue(MessageBridgeQ, "whatsapp.messages", "message.received") >>

\* MessageDatabaseConsumer.connect
DatabaseConsumerSteps ==
  << assertExchange("baileys.dlx", "direct"),
     assertQueue(MessageBridgeQ, DlxArgs) >>

\* DeadLetterQueue.setupDLQInfrastructure
DlqStoreSteps ==
  << assertExchange("baileys.dlx", "topic"),
     assertQueue(DlqStoreQueue, TtlArgs),
     bindQueue(DlqStoreQueue, "baileys.dlx", "dead.letter") >>

\* SessionManager.garantirFilasEmpresasRabbitMQ
TenantSteps == << assertQueue(TenantQueue, DlxArgs) >>

\* QueueManager.ensureQueue(queueName) with the default configuration, then
\* ensureDeadLetterQueue(queueName).
EnsureQueueSteps ==
  << assertQueue(CustomQueue, NoArgs),
     assertExchange("custom.queue.dlx", "direct"),
     assertQueue(CustomDlq, NoArgs),
     bindQueue(CustomDlq, "custom.queue.dlx", CustomQueue) >>

Declarers ==
  {"consumer", "bridge", "databaseConsumer", "dlqStore", "sessionManager", "queueManager"}

DeclSteps(d) ==
  CASE d = "producer"         -> ProducerSteps
    [] d = "consumer"         -> ConsumerSteps
    [] d = "bridge"           -> BridgeSteps
    [] d = "databaseConsumer" -> DatabaseConsumerSteps
    [] d = "dlqStore"         -> DlqStoreSteps
    [] d = "sessionManager"   -> TenantSteps
    [] d = "queueManager"     -> EnsureQueueSteps

\* What running d's declarations does to the broker and to the history.
Ran(d, r) ==
  /\ topo' = r.topo
  /\ declOk' = IF r.failed = {} THEN declOk \cup {d} ELSE declOk
  /\ declFailed' = declFailed \cup { [by |-> d, op |-> f.op, name |-> f.name] : f \in r.failed }

\* One component connects and declares its topology.
Declare(d) ==
  /\ Ran(d, RunSteps(DeclSteps(d), topo))
  /\ UNCHANGED <<prodChan, prodLog>>
  /\ TopoFrame

\* UnifiedProducer.connect up to `this.channel = await createChannel()`:
\* the channel field is set before anything is declared on it.
ProducerConnectOpen ==
  /\ prodChan = "null"
  /\ prodChan' = "declaring"
  /\ UNCHANGED <<topo, declOk, declFailed, prodLog>>
  /\ TopoFrame

\* UnifiedProducer.connect, the awaited declarations. A refused declaration
\* closes the channel and connect throws; this.channel keeps the closed
\* channel.
ProducerConnectDeclare ==
  /\ prodChan = "declaring"
  /\ Ran("producer", RunSteps(ProducerSteps, topo))
  /\ prodChan' = IF RunSteps(ProducerSteps, topo).failed = {} THEN "ready" ELSE "closed"
  /\ UNCHANGED prodLog
  /\ TopoFrame

\* The connection's 'close' / 'error' event: connection and channel are
\* nulled. Exchanges, queues and bindings are durable and stay.
ProducerConnectionLost ==
  /\ prodChan # "null"
  /\ prodChan' = "null"
  /\ UNCHANGED <<topo, declOk, declFailed, prodLog>>
  /\ TopoFrame

\* The rest of publishToExchange / sendToQueue once its `await connect()` has
\* returned, which it does at once when this.channel is already set.
\* A closed channel throws and the method returns false.
ProducerMayProceed(chan) == chan \in {"declaring", "ready", "closed"}

publishToExchange(exchangeName, routingKey) ==
  /\ ProducerMayProceed(prodChan)
  /\ prodLog' = prodLog \cup
       { [op |-> "publish", target |-> exchangeName, chan |-> prodChan,
          sent |-> prodChan # "closed",
          declared |-> topo.exchanges[exchangeName] # "absent",
          args |-> ""] }
  /\ UNCHANGED <<topo, declOk, declFailed, prodChan>>
  /\ TopoFrame

sendToQueue(queueName) ==
  /\ ProducerMayProceed(prodChan)
  /\ prodLog' = prodLog \cup
       { [op |-> "sendToQueue", target |-> queueName, chan |-> prodChan,
          sent |-> prodChan # "closed",
          declared |-> topo.queues[queueName] # "absent",
          args |-> topo.queues[queueName]] }
  /\ UNCHANGED <<topo, declOk, declFailed, prodChan>>
  /\ TopoFrame

InitTopology ==
  /\ topo = [exchanges |-> [e \in TopoExchanges |-> "absent"],
             queues |-> [q \in TopoQueues |-> "absent"],
             bindings |-> {}]
  /\ declOk = {}
  /\ declFailed = {}
  /\ prodChan = "null"
  /\ prodLog = {}

NextTopology ==
  \/ \E d \in Declarers : Declare(d)
  \/ ProducerConnectOpen
  \/ ProducerConnectDeclare
  \/ ProducerConnectionLost
  \/ publishToExchange("whatsapp.messages", "message.received")
  \/ \E queueName \in {SendCommands, CustomQueue} : sendToQueue(queueName)

\* ====================================== RedisConsumer.startConsuming loop
\* What one xReadGroup of the loop can end in: entries or none (after BLOCK),
\* a NOGROUP error reply when the group is gone, any other error (a lost
\* connection, a closed client). Every one of them is an Error with a message.
ReadResults == {"entries", "nothing", "NOGROUP", "error"}

\* A faulty catch block that rethrows what is not NOGROUP: the outer catch of
\* startConsuming then sets isConsuming = false and the method returns.
afterReadRethrowing(result) ==
  IF result \in {"entries", "nothing", "NOGROUP"} THEN "loop" ELSE "returned"

\* Where the loop body leaves startConsuming: processMessage never throws;
\* NOGROUP awaits createConsumerGroup, which catches its own errors; any
\* other error awaits sleep(5000).
afterRead(result) ==
  IF result \in {"entries", "nothing", "NOGROUP"} THEN "loop" ELSE "sleeping"

\* startConsuming up to the while: connect() (which creates the group, or
\* finds it), the client and isConsuming tests.
startConsuming(connectOk) ==
  /\ loopPc \in {"idle", "returned", "failed"}
  /\ ~isConsuming
  /\ loopPc' = IF connectOk THEN "loop" ELSE "failed"
  /\ isConsuming' = connectOk
  /\ groupExists' = (groupExists \/ connectOk)
  /\ loopLog' = {}
  /\ UNCHANGED loopReads
  /\ LoopFrame

\* The while test found false: the loop is left and startConsuming returns.
LoopExit ==
  /\ loopPc = "loop"
  /\ ~isConsuming
  /\ loopPc' = "returned"
  /\ UNCHANGED <<isConsuming, groupExists, loopReads, loopLog>>
  /\ LoopFrame

\* One turn of the while loop: xReadGroup, and the catch block.
LoopRead(result, redisOk) ==
  /\ loopPc = "loop"
  /\ isConsuming
  /\ loopReads < MaxLoopReads
  /\ (result = "NOGROUP") => ~groupExists
  /\ (result \in {"entries", "nothing"}) => groupExists
  /\ loopReads' = loopReads + 1
  /\ loopPc' = afterRead(result)
  /\ isConsuming' = (afterRead(result) # "returned")
  /\ groupExists' = IF result = "NOGROUP" THEN redisOk ELSE groupExists
  /\ loopLog' = loopLog \cup {result}
  /\ LoopFrame

\* sleep(5000) is over.
LoopWake ==
  /\ loopPc = "sleeping"
  /\ loopPc' = "loop"
  /\ UNCHANGED <<isConsuming, groupExists, loopReads, loopLog>>
  /\ LoopFrame

\* stopConsuming()
stopConsuming ==
  /\ isConsuming
  /\ isConsuming' = FALSE
  /\ loopLog' = loopLog \cup {"stop"}
  /\ UNCHANGED <<loopPc, groupExists, loopReads>>
  /\ LoopFrame

\* The stream key or its group is deleted in Redis.
GroupLost ==
  /\ groupExists
  /\ groupExists' = FALSE
  /\ UNCHANGED <<loopPc, isConsuming, loopReads, loopLog>>
  /\ LoopFrame

InitLoop ==
  /\ loopPc = "idle"
  /\ isConsuming = FALSE
  /\ groupExists = FALSE
  /\ loopReads = 0
  /\ loopLog = {}

NextLoop ==
  \/ \E connectOk \in BOOLEAN : startConsuming(connectOk)
  \/ LoopExit
  \/ \E result \in ReadResults, redisOk \in BOOLEAN : LoopRead(result, redisOk)
  \/ LoopWake
  \/ stopConsuming
  \/ GroupLost

\* ======================================== UnifiedConsumer, its connection
\* The queues startConsuming registers a consume callback on.
ConsumedQueues == {SendCommands, MessageBridgeQ, InstanceQueue}

\* How amqp.connect ends inside connect(): with a connection, or with an
\* error of one of the classes handleError tells apart.
ConnectResults == {"ok", "ConnectionReset", "ResourceLocked", "NotFound"}

NoConnTimers == [reconnect |-> 0, connect |-> 0]

\* connect(): returns at once when connection and channel are set; else
\* amqp.connect, createChannel and the declarations (fresh: a new channel,
\* with no consumer on it). When that throws, handleError(error, 'connect', 0)
\* decides: action 'retry' sets a timer for another connect() and returns,
\* any other action rethrows.
connect(conn, chan, lnk, result) ==
  IF conn /\ chan THEN
    [connection |-> conn, channel |-> chan, link |-> lnk, fresh |-> FALSE,
     timer |-> FALSE, threw |-> FALSE]
  ELSE IF result = "ok" THEN
    [connection |-> TRUE, channel |-> TRUE, link |-> TRUE, fresh |-> TRUE,
     timer |-> FALSE, threw |-> FALSE]
  ELSE
    [connection |-> conn, channel |-> chan, link |-> FALSE, fresh |-> FALSE,
     timer |-> handleError(ErrorByName(result), 0).action = "retry",
     threw |-> handleError(ErrorByName(result), 0).action # "retry"]

\* What a connect() call leaves in the fields and the timers.
Connected(c) ==
  /\ connection' = c.connection
  /\ channel' = c.channel
  /\ link' = c.link
  /\ connTimers' = IF c.timer THEN [connTimers EXCEPT !.connect = @ + 1] ELSE connTimers

\* UnifiedConsumer.startConsuming(handlers), called once by the server:
\* connect(), throw when there is no channel, then the three consume calls
\* and isRunning = true.
consumerStartConsuming(result) ==
  /\ ~connLog.started
  /\ ~isRunning
  /\ LET c == connect(connection, channel, link, result)
     IN /\ Connected(c)
        /\ isRunning' = (~c.threw /\ c.channel)
        /\ consuming' = IF ~c.threw /\ c.channel THEN ConsumedQueues ELSE consuming
  /\ connLog' = [connLog EXCEPT !.started = TRUE]
  /\ UNCHANGED connErrors
  /\ ConnFrame

\* The connection emits 'error' and then 'close'. The 'error' handler sets a
\* timer for reconnect() when handleError(err, 'connection', 0) says
\* 'reconnect', else it clears the fields; the 'close' handler clears them in
\* either case. The broker has dropped the connection's consumers.
ConnectionError(e) ==
  /\ link
  /\ connErrors < MaxConnErrors
  /\ connErrors' = connErrors + 1
  /\ connTimers' = IF handleError(ErrorByName(e), 0).action = "reconnect"
                   THEN [connTimers EXCEPT !.reconnect = @ + 1]
                   ELSE connTimers
  /\ connection' = FALSE
  /\ channel' = FALSE
  /\ isRunning' = FALSE
  /\ link' = FALSE
  /\ consuming' = {}
  /\ connLog' = [connLog EXCEPT !.error = e,
                                !.action = handleError(ErrorByName(e), 0).action,
                                !.before = consuming]
  /\ ConnFrame

\* The timer of the 'error' handler runs reconnect(): the fields are
\* cleared, isRunning = false, await connect(); an error of connect() is
\* caught and logged. No consume call is made.
reconnect(result) ==
  /\ connTimers.reconnect > 0
  /\ LET c == connect(FALSE, FALSE, FALSE, result)
     IN /\ connection' = c.connection
        /\ channel' = c.channel
        /\ link' = c.link
        /\ connTimers' = [reconnect |-> connTimers.reconnect - 1,
                          connect |-> connTimers.connect + (IF c.timer THEN 1 ELSE 0)]
  /\ isRunning' = FALSE
  /\ consuming' = {}
  /\ UNCHANGED <<connErrors, connLog>>
  /\ ConnFrame

\* The timer connect() set for itself runs connect() again; nothing awaits
\* it, so an error it rethrows goes nowhere.
ConnectTimerFires(result) ==
  /\ connTimers.connect > 0
  /\ LET c == connect(connection, channel, link, result)
     IN /\ connection' = c.connection
        /\ channel' = c.channel
        /\ link' = c.link
        /\ connTimers' = [connTimers EXCEPT
                            !.connect = @ - 1 + (IF c.timer THEN 1 ELSE 0)]
        /\ consuming' = IF c.fresh THEN {} ELSE consuming
  /\ UNCHANGED <<isRunning, connErrors, connLog>>
  /\ ConnFrame

\* UnifiedConsumer.stop(): isRunning = false, the channel and the connection
\* are closed and their fields cleared. Pending timers are not cancelled.
consumerStop ==
  /\ connLog.started
  /\ ~connLog.stopped
  /\ isRunning' = FALSE
  /\ channel' = FALSE
  /\ connection' = FALSE
  /\ link' = FALSE
  /\ consuming' = {}
  /\ connLog' = [connLog EXCEPT !.stopped = TRUE]
  /\ UNCHANGED <<connTimers, connErrors>>
  /\ ConnFrame

InitConnection ==
  /\ connection = FALSE
  /\ channel = FALSE
  /\ isRunning = FALSE
  /\ link = FALSE
  /\ consuming = {}
  /\ connTimers = NoConnTimers
  /\ connErrors = 0
  /\ connLog = [started |-> FALSE, stopped |-> FALSE, error |-> "none", action |-> "none",
                before |-> {}]

NextConnection ==
  \/ \E result \in ConnectResults : consumerStartConsuming(result)
  \/ \E e \in ErrorNames : ConnectionError(e)
  \/ \E result \in ConnectResults : reconnect(result)
  \/ \E result \in ConnectResults : ConnectTimerFires(result)
  \/ consumerStop

\* ========================================================= specifications
Init ==
  /\ InitConsumer /\ InitBridge /\ InitDLQ /\ InitDecision /\ InitBreaker
  /\ InitLimiter /\ InitSend /\ InitWindow /\ InitTopology /\ InitLoop
  /\ InitConnection

SpecConsumer == Init /\ [][NextConsumer]_vars

SpecBridge == Init /\ [][NextBridge]_vars

SpecDLQ == Init /\ [][NextDLQ]_vars

SpecRepublish == Init /\ [][NextRepublish]_vars

SpecDecision == Init /\ [][NextDecision]_vars

SpecBackoff == Init /\ [][NextBackoff]_vars

SpecBreaker == Init /\ [][NextBreaker]_vars

SpecLimiter == Init /\ [][NextLimiter]_vars

SpecSend == Init /\ [][NextSend]_vars

SpecWindow == Init /\ [][NextWindow]_vars

SpecTopology == Init /\ [][NextTopology]_vars

SpecLoop == Init /\ [][NextLoop]_vars

SpecConnection == Init /\ [][NextConnection]_vars


\* ================================================================== claims
\* ---------------------------------------------------------- MessageBridge
\* C1: a broker delivery whose append to the log did not store an entry is
\* never acked by MessageBridge; it is nacked without requeue.
C1_NoAckOnAppendFailure ==
  \A l \in bridgeLog : ~l.appended => (~l.ack /\ l.nack)

\* C2: processMessage xAcks a log entry only if the storage callback for that
\* entry returned; an entry whose callback threw is not acknowledged.
C2_AckOnlyAfterCallback ==
  \A l \in entryLog : l.acked => l.cbOk

\* C3 (Scenario A): an appended event reaches the store even if the reader
\* crashed between reading and acknowledging it, because the resumed reader
\* replays what it had not acknowledged. Stated on the states where the reader
\* is up with nothing in hand and nothing left to read: every entry of the
\* log whose storage callback never failed is in the store by then.
C3_StoredAfterCrashAndResume ==
  (readerUp /\ batch = <<>> /\ lastDelivered = Len(stream)) =>
     \A idx \in 1..Len(stream) :
        (\A l \in entryLog : l.idx = idx => l.cbOk) => stream[idx].eid \in disk

\* --------------------------------------------------------- UnifiedConsumer
\* C4: a delivery the consumer decides to retry below maxRetries is acked and
\* its republish, carrying retryCount+1, arrives on the queue it was consumed
\* from.
C4_RetryReturnsToSameQueue ==
  /\ \A r \in resolved :
        (r.action = "retry" /\ r.rc < ConsumerMaxRetries /\ r.chan) => (r.timer /\ r.ack)
  /\ \A p \in pubLog :
        (p.kind = "retry" /\ ~p.threw) => (p.from \in p.routedTo /\ p.msg.rc >= 1)

\* C5 (Scenario B): a delivery failing with a ConnectionReset-flavored error
\* on attempt 1 or 2 (maxRetries = 3) is retried, and nothing of it reaches
\* the dead-letter queue.
C5_ConnectionResetIsRetried ==
  \A r \in resolved :
     (r.err \in ConnectionResetFlavored /\ r.chan /\ r.rc + 1 < ConsumerMaxRetries) =>
        /\ r.outcome = "Retried"
        /\ \A k \in 1..Len(brokerQ[DeadLetterQ]) : brokerQ[DeadLetterQ][k].id # r.id

\* C6 (Scenario C): a delivery failing with a ValidationError on its first
\* attempt is not retried and is dead-lettered by the consumer at once, the
\* dead-lettered message carrying x-retry-count = 0.
C6_ValidationErrorDeadLettered ==
  \A r \in resolved :
     (r.err = "ValidationError" /\ r.chan /\ r.rc = 0) =>
        /\ ~r.timer
        /\ r.outcome = "DeadLettered"
        /\ \E k \in 1..Len(brokerQ[DeadLetterQ]) :
              /\ brokerQ[DeadLetterQ][k].id = r.id
              /\ brokerQ[DeadLetterQ][k].rc = 0

\* C7: when the handler fails with an error that is not retryable, or with
\* retryCount at maxRetries, the consumer publishes the message to the
\* dead-letter exchange with the failure headers and, the publish done, acks.
C7_TerminalFailureIsPublishedToDlx ==
  \A r \in resolved :
     (/\ r.err # "none"
      /\ r.chan
      /\ \/ ~analyzeError(ErrorByName(r.err)).retryable
         \/ r.rc >= ConsumerMaxRetries) =>
        (r.dlqTried /\ (r.dlqOk => r.ack))

\* C8, as stated: whenever the dead-letter publish fails, the delivery is
\* nacked without requeue and not acked.
C8_NackedWhenDlqPublishFails ==
  \A r \in resolved : (r.dlqTried /\ ~r.dlqOk) => (r.nack /\ ~r.ack)

\* C8, amended: when the dead-letter publish fails the delivery is never
\* acked; it is nacked without requeue (and so not back on its queue) exactly
\* when the channel is still there; with this.channel null the nack throws as
\* well and the delivery stays with the broker, which requeued it when the
\* channel closed.
C8_NoAckWhenDlqPublishFails ==
  \A r \in resolved :
     (r.dlqTried /\ ~r.dlqOk) =>
        /\ ~r.ack
        /\ r.nack <=> r.chan
        /\ r.chan => \A k \in 1..Len(brokerQ[SendCommands]) :
                        brokerQ[SendCommands][k].id # r.id
        /\ ~r.chan => \E k \in 1..Len(brokerQ[SendCommands]) :
                         brokerQ[SendCommands][k].id = r.id

\* C8 witness: a dead-letter publish threw on a live channel and the delivery
\* was nacked.
C8_Witness ==
  \E r \in resolved : r.dlqTried /\ ~r.dlqOk /\ r.chan /\ r.nack /\ ~r.ack

\* C9: a failed delivery ends as Discarded (nack without requeue, no
\* dead-letter publish made) only if a dead-letter publish for it was
\* attempted and failed.
C9_DiscardOnlyAfterFailedDlqPublish ==
  \A r \in resolved : r.outcome = "Discarded" => (r.dlqTried /\ ~r.dlqOk)

C11_ExhaustedIsArchivedNotRetried ==
  [][ /\ \A c \in Callers :
            (retryPc[c].step = "idle" /\ retryPc'[c].step = "loaded") =>
               retryPc'[c].msg.retryCount < retryPc'[c].msg.maxRetries
      /\ \A c \in Callers : \A m \in todo[c] :
            (/\ job[c] = "sweep"
             /\ todo'[c] = todo[c] \ {m}
             /\ m.retryCount >= m.maxRetries) =>
               (/\ m.id \in archive'
                /\ ~redisDlq'[m.id].present
                /\ retryPc'[c].step = "idle") ]_vars

\* C12: no two sweeps run at once: while one processFailedMessages is in
\* progress, no second one is.
C12_SweepNeverOverlapsItself ==
  ~(Busy("sweep") /\ job["second"] = "sweep")

\* C13: the sweep retries a record if and only if retryCount < maxRetries and
\* now - lastErrorTimestamp >= minRetryDelay and its error is recoverable,
\* where an error with a deny-list word is not recoverable whatever else it
\* includes, and an error with no word of either list is recoverable.
C13_SweepRetriesIff ==
  verdict # "none" =>
     (verdict = "retry" <=>
        /\ probe.message.retryCount < probe.message.maxRetries
        /\ probe.t - probe.message.lastErrorTimestamp >= MinRetryDelay
        /\ probe.message.error \cap NonRecoverableErrors = {})

\* C13 witness: a record with retries left and old enough, whose error
\* includes a word of each list, was discarded.
C13_Witness ==
  /\ verdict = "discard"
  /\ probe.message.retryCount < probe.message.maxRetries
  /\ probe.t - probe.message.lastErrorTimestamp >= MinRetryDelay
  /\ probe.message.error \cap NonRecoverableErrors # {}
  /\ probe.message.error \cap RecoverableErrors # {}

\* C14: every record that was parked and is no longer in the live store has
\* an archive entry.
C14_DeletedOnlyAfterArchived ==
  \A i \in 1..parked : ~redisDlq[i].present => i \in archive

\* C15: every publish of retryMessage carries the payload the record was
\* parked with, goes to the exchange and routing key recorded at parking, and
\* the call returns true exactly when the publish was accepted.
C15_RetryRepublishesOriginal ==
  \A p \in retryLog :
     /\ p.content = [body |-> p.id]
     /\ p.key \in ParkedRoutingKeys
     /\ p.exchange =
          sendToDeadLetterQueue(p.id, p.content, p.key, {}, 0, 0).originalExchange
     /\ redisDlq[p.id].present =>
          /\ p.content = redisDlq[p.id].payload
          /\ p.exchange = redisDlq[p.id].originalExchange
          /\ p.key = redisDlq[p.id].originalRoutingKey
     /\ p.returned <=> p.published

\* C15 witness: one retryMessage call returned true after its publish and
\* another returned false after a publish that was not accepted.
C15_Witness ==
  /\ \E p \in retryLog : p.published /\ p.returned
  /\ \E p \in retryLog : ~p.published /\ ~p.returned

\* --------------------------------------------------- CircuitBreakerService
\* C16: with threshold 3 the breaker is open exactly when at least three
\* executions in a row have failed since the last success or reset, its
\* failureCount being that number, and the failure that opens it sets
\* nextTryTime to the time of that failure plus the cooldown.
C16_OpensAtThreshold ==
  /\ cb.failureCount = cbStreak
  /\ cb.isOpen <=> cbStreak >= CbThreshold
  /\ (cbLast.kind = "failed" /\ cbStreak >= CbThreshold) =>
        cb.nextTryTime = cbLast.at + CbCooldownTime

\* C16 witness: the third failure in a row has just opened a closed breaker.
C16_Witness ==
  /\ cbLast.kind = "failed"
  /\ ~cbLast.open
  /\ cbStreak = CbThreshold
  /\ cb.isOpen

\* C17: an execution that starts while the breaker is open and now <
\* nextTryTime is rejected with the remaining cooldown in whole seconds, at
\* least one, and its action is not started: nothing is awaited and the
\* breaker's fields stay as they are.
C17_RejectsWhileOpen ==
  [][ (CbRejects(cb, cbNow) /\ cbCalls' = cbCalls + 1) =>
         /\ cbLast'.kind = "rejected"
         /\ cbLast'.remaining = CeilSeconds(cb.nextTryTime - cbNow)
         /\ cbLast'.remaining >= 1
         /\ cbInFlight' = cbInFlight
         /\ cb' = cb
         /\ cbStreak' = cbStreak ]_vars

\* C17 witness: an execution was rejected part of the way through the
\* cooldown.
C17_Witness ==
  /\ cbLast.kind = "rejected"
  /\ cbLast.at > cb.nextTryTime - CbCooldownTime
  /\ cbLast.remaining * 1000 < CbCooldownTime

C18_WitnessClosed ==
  cbLast.kind = "succeeded" /\ cbLast.after /\ ~cb.isOpen

\* ------------------------------------------- breaker-open send rejections
\* C19: a send-command whose handler failed because the circuit breaker
\* guarding the session provider was open is retried by the consumer while
\* retryCount < maxRetries: a republish is scheduled, and the delivery is
\* neither nacked away nor published to the dead-letter exchange.
C19_BreakerOpenIsRetried ==
  \A r \in resolved :
     (r.err = "CircuitBreakerOpen" /\ r.chan /\ r.rc < ConsumerMaxRetries) =>
        /\ r.outcome = "Retried"
        /\ r.timer
        /\ ~r.nack
        /\ ~r.dlqTried

\* ------------------------------------------------------------- RateLimiter
\* C20: with the window at 30000 ms, a canSendMessage(key, content) made less
\* than a window after the key's last allowed send of that same content (no
\* reset in between) is refused as a duplicate, with the rest of that window
\* as timeRemaining; one made a full window or more after it is never refused
\* as a duplicate, and is allowed when the key sent nothing else in the
\* window.
C20_DedupWindow ==
  (limLast.kind = "call" /\ limLast.prevSame >= 0) =>
     /\ limLast.at - limLast.prevSame < RATE_LIMIT_WINDOW =>
           /\ ~limLast.allowed
           /\ limLast.reason = DuplicateReason
           /\ limLast.timeRemaining =
                 RATE_LIMIT_WINDOW - (limLast.at - limLast.prevSame)
     /\ limLast.at - limLast.prevSame >= RATE_LIMIT_WINDOW =>
           /\ limLast.reason # DuplicateReason
           /\ limLast.at - limLast.prevAny >= RATE_LIMIT_WINDOW => limLast.allowed

\* C20 witness: the same content was sent again half a window after it was
\* allowed, and was refused as a duplicate.
C20_Witness ==
  /\ limLast.kind = "call"
  /\ limLast.prevSame >= 0
  /\ limLast.at > limLast.prevSame
  /\ limLast.at - limLast.prevSame < RATE_LIMIT_WINDOW
  /\ ~limLast.allowed

\* C20 witness, after the window: the same content was sent again exactly one
\* window after it was allowed, and was allowed again.
C20_WitnessAfterWindow ==
  /\ limLast.kind = "call"
  /\ limLast.prevSame >= 0
  /\ limLast.at - limLast.prevSame = RATE_LIMIT_WINDOW
  /\ limLast.allowed

\* C21: with one message allowed per window, the first canSendMessage of a
\* key (nothing sent since its last reset) is allowed, and a call with other
\* content made less than a window after the key's last allowed send is
\* refused as over the message limit, with the rest of the window as
\* timeRemaining.
C21_RateLimitWindow ==
  limLast.kind = "call" =>
     /\ limLast.prevAny < 0 => limLast.allowed
     /\ (/\ limLast.prevAny >= 0
         /\ limLast.prevSame < limLast.prevAny
         /\ limLast.at - limLast.prevAny < RATE_LIMIT_WINDOW) =>
           /\ ~limLast.allowed
           /\ limLast.reason = LimitReason
           /\ limLast.timeRemaining =
                 RATE_LIMIT_WINDOW - (limLast.at - limLast.prevAny)

\* C21 witness: other content was sent half a window after the key's first
\* send was allowed, and was refused as over the limit.
C21_Witness ==
  /\ limLast.kind = "call"
  /\ limLast.prevAny >= 0
  /\ limLast.prevSame < 0
  /\ limLast.at - limLast.prevAny = LimStep
  /\ ~limLast.allowed
  /\ limLast.reason = LimitReason

\* --------------------------------------------------------- broker topology
\* C22: no declaration made by the producer, the consumers, the bridge or the
\* dead-letter store is ever refused, in whatever order and however often
\* they run, and running again the declarations of a component that has
\* declared leaves the broker's exchanges, queues and bindings as they are.
C22_IdempotentTopology ==
  /\ declFailed = {}
  /\ \A d \in declOk :
        RunSteps(DeclSteps(d), topo) = [topo |-> topo, failed |-> {}]

\* C22, the part that holds: a component whose declarations all succeeded
\* can repeat them without changing the broker and without a refusal.
C22_RerunChangesNothing ==
  \A d \in declOk :
     RunSteps(DeclSteps(d), topo) = [topo |-> topo, failed |-> {}]

\* C23: every application queue that exists on the broker (command, bridge,
\* instance, tenant and ensureQueue-created queues) was declared with
\* x-dead-letter-exchange / x-dead-letter-routing-key pointing at the
\* dead-letter exchange.
C23_ApplicationQueuesDeadLetter ==
  \A q \in ApplicationQueues :
     topo.queues[q] # "absent" => topo.queues[q] = DlxArgs

\* C24: the producer sends nothing on a channel on which its topology
\* declarations have not completed.
C24_NoPublishBeforeTopology ==
  \A p \in prodLog : p.sent => p.chan = "ready"

\* C25: every message sendToQueue(queueName) sent went to a queue that
\* existed by then, declared with the dead-letter arguments.
C25_SendToQueueEnsuresQueue ==
  \A p \in prodLog :
     (p.op = "sendToQueue" /\ p.sent) => (p.declared /\ p.args = DlxArgs)

\* ------------------------------------------------- send-command routing
\* C26: a send-command that failed because the active sessions were not
\* exactly one is never republished for retry: no republish timer is set for
\* it.
C26_SessionCountFailureNotRetried ==
  \A r \in resolved :
     r.err \in SessionCountErrors => (~r.timer /\ r.action # "retry")

\* ------------------------------------------------- terminal classifications
\* C27: a delivery whose failure is classified ACCESS_REFUSED,
\* PERMISSION_DENIED, NOT_FOUND, PRECONDITION_FAILED or MESSAGE_TOO_LARGE
\* gets no retry and no reconnect action, no republish timer, and on that
\* failure is published to the dead-letter exchange and, the publish done,
\* ends DeadLettered.
C27_TerminalIsDeadLetteredAtOnce ==
  \A r \in resolved :
     (r.err # "none" /\ r.chan /\ analyzeError(ErrorByName(r.err)).type \in TerminalTypes) =>
        /\ r.action \notin {"retry", "reconnect"}
        /\ ~r.timer
        /\ r.dlqTried
        /\ r.dlqOk => r.outcome = "DeadLettered"

\* C27, the part that holds: a terminal classification never leads to a
\* retry or reconnect action nor to a republish.
C27_TerminalNeverRetried ==
  \A r \in resolved :
     (r.err # "none" /\ analyzeError(ErrorByName(r.err)).type \in TerminalTypes) =>
        (r.action \notin {"retry", "reconnect"} /\ ~r.timer)

\* ------------------------------------------------------------ retry delay
\* C28: for every retry count, the delay calculateRetryDelay gives for a
\* classification with no fixed delay of its own, and the wait of
\* QueueManager.sendMessage, are base delay * 2^retryCount, and no delay
\* exceeds a fixed cap, taken here as generously as the retry budget allows:
\* base delay * 2^maxRetries.
C28_BackoffIsCapped ==
  backoff.error # "none" =>
     /\ analyzeError(ErrorByName(backoff.error)).retryDelay = 0 =>
           backoff.delay = ConfigRetryDelay * 2 ^ backoff.retryCount
     /\ backoff.sendDelay = ConfigRetryDelay * 2 ^ backoff.retryCount
     /\ backoff.delay <= ConfigRetryDelay * 2 ^ ConsumerMaxRetries
     /\ backoff.sendDelay <= ConfigRetryDelay * 2 ^ ConsumerMaxRetries

\* C28, the part that holds: the delay is base delay * 2^retryCount, or the
\* classification's own fixed delay.
C28_BackoffIsExponential ==
  backoff.error # "none" =>
     /\ backoff.delay =
          IF analyzeError(ErrorByName(backoff.error)).retryDelay # 0
          THEN analyzeError(ErrorByName(backoff.error)).retryDelay
          ELSE ConfigRetryDelay * 2 ^ backoff.retryCount
     /\ backoff.sendDelay = ConfigRetryDelay * 2 ^ backoff.retryCount

\* ------------------------------------------------- the log reader's loop
\* C29: once started, the loop of startConsuming is left only after a stop
\* was asked for; a NOGROUP error takes it back to the while test at once
\* (the group recreated when Redis allows), any other read error takes it
\* there after the fixed wait, and isConsuming stays true through both.
C29_LoopEndsOnlyOnStop ==
  /\ loopPc = "returned" => "stop" \in loopLog
  /\ ("stop" \notin loopLog /\ loopPc \in {"loop", "sleeping"}) => isConsuming

\* C29 witness: the loop met a NOGROUP error and another read error, no stop
\* was asked for, and it is at its while test again, consuming, the group
\* back in place.
C29_Witness ==
  /\ {"NOGROUP", "error"} \subseteq loopLog
  /\ "stop" \notin loopLog
  /\ loopPc = "loop"
  /\ isConsuming
  /\ groupExists

\* ------------------------------------------------ the bridge queue, end to end
\* C30: no event published to whatsapp.messages.bridge is silently lost. An
\* event that is neither saved on disk nor dead-lettered is still on its way:
\* waiting in the bridge queue, or an entry of the log that the group has not
\* been handed yet or that is still pending (read, not acknowledged). An
\* event for which none of these holds can never be saved or dead-lettered
\* later, so the eventual outcome the sentence promises fails with it.
C30_NoEventSilentlyLost ==
  \A e \in 1..eventsOut :
     \/ e \in disk
     \/ \E i \in 1..Len(bridgeDlq) : bridgeDlq[i].eid = e
     \/ \E i \in 1..Len(bridgeQ) : bridgeQ[i].eid = e
     \/ \E i \in 1..Len(stream) :
          /\ stream[i].eid = e
          /\ (i > lastDelivered \/ i \in pel)

\* ------------------------------------------- UnifiedConsumer, every delivery
ResolvedStates == {"Acked", "Retried", "DeadLettered", "Discarded"}

\* C31, as stated: every delivery whose callback ended received exactly one
\* ack or exactly one nack, and ended in one of Acked, Retried, DeadLettered,
\* Discarded.
C31_ResolvedExactlyOnce ==
  \A r \in resolved : (r.ack # r.nack) /\ r.outcome \in ResolvedStates

\* C31, amended: no delivery is both acked and nacked, and no delivery has
\* two callback endings. A callback that ends while this.channel is live
\* gives exactly one ack or one nack and one of the four final states; a
\* callback that ends after the channel was closed (this.channel null) gives
\* neither, because ack and nack both throw, and the delivery is back on its
\* queue, where the broker put it when the channel closed.
C31_ResolvedOnceOnLiveChannel ==
  /\ \A r \in resolved :
        /\ ~(r.ack /\ r.nack)
        /\ r.chan => ((r.ack # r.nack) /\ r.outcome \in ResolvedStates)
        /\ ~r.chan =>
             /\ ~r.ack /\ ~r.nack /\ r.outcome = "Threw"
             /\ \E k \in 1..Len(brokerQ[SendCommands]) :
                   brokerQ[SendCommands][k].id = r.id
  /\ \A r1, r2 \in resolved : r1.id = r2.id => r1 = r2

\* C31 witness: one delivery was acked after its handler returned and another
\* was nacked by handleMessageError, both on a live channel.
C31_Witness ==
  \E r1, r2 \in resolved :
     /\ r1.chan /\ r1.outcome = "Acked" /\ r1.ack /\ ~r1.nack
     /\ r2.chan /\ r2.outcome = "Discarded" /\ r2.nack /\ ~r2.ack
     /\ r1.id # r2.id

\* ----------------------------------------- the dead-letter store, republishes
\* C32: once a parked record was republished with success and the call that
\* did it has returned, the store does not hold the record for retry any more
\* (it is gone, or it has no retry left), and the record is not republished a
\* second time.
C32_RepublishedIsNotHeldForRetry ==
  \A i \in RecIds :
     (budget[i].republished >= 1 /\ \A c \in Callers : retryPc[c].step = "idle") =>
        /\ ~(redisDlq[i].present /\ redisDlq[i].retryCount < redisDlq[i].maxRetries)
        /\ budget[i].republished = 1

\* ------------------------------------------- UnifiedConsumer, its connection
\* C33: after a connection error classified as reconnect, once no timer is
\* pending any more and unless the consumer was stopped, the connection is
\* there again and every queue that was consumed before the error is
\* consumed again.
C33_ResumesAfterReconnect ==
  (connLog.action = "reconnect" /\ connTimers = NoConnTimers /\ ~connLog.stopped) =>
     /\ link /\ connection /\ channel
     /\ connLog.before \subseteq consuming

\* C33, the part that holds: when the reconnect's connect() succeeds, the
\* connection and the channel are set again.
C33_ReconnectSetsTheFields ==
  [][\A result \in ConnectResults :
        (reconnect(result) /\ result = "ok") => (link' /\ connection' /\ channel')]_vars

\* ------------------------------------------------ send commands, end to end
\* C34: a send command that the consumer acks after its handler returned was
\* passed to the session provider's send.
C34_AckedWasSent ==
  (sendLast.kind = "send" /\ sendLast.acked) => sendLast.provider

\* C35: a send that repeats, inside the window, the content of the key's
\* last admitted send, that send having failed, is admitted by the limiter.
C35_RetryOfFailedIsAdmitted ==
  (sendLast.kind = "send" /\ sendLast.retryOfFailed) => sendLast.allowed

\* --------------------------------------------- RateLimiter, any limit
\* C36: for every key and every limit of at least 1, the sends that
\* canSendMessage allowed within any span shorter than the window are at
\* most the limit. Allowed sends are in time order, so the spans that start
\* at an allowed send are the ones to count.
C36_AtMostMaxPerWindow ==
  \A k \in LimKeys :
     \A i \in 1..Len(limHistory[k].allowed) :
        Cardinality({ j \in i..Len(limHistory[k].allowed) :
                        limHistory[k].allowed[j] - limHistory[k].allowed[i]
                          < RATE_LIMIT_WINDOW }) <= limMax

\* C36 witness: with a limit of 2, a key had two sends allowed within one
\* window, a further call refused as over the limit, and a send allowed
\* again after the window.
C36_Witness ==
  /\ limMax = 2
  /\ \E k \in LimKeys :
        /\ Len(limHistory[k].allowed) = 3
        /\ limHistory[k].allowed[2] - limHistory[k].allowed[1] < RATE_LIMIT_WINDOW
        /\ limHistory[k].allowed[3] - limHistory[k].allowed[2] >= RATE_LIMIT_WINDOW
        /\ limHistory[k].limited

\* ------------------------------------------- CircuitBreakerService, overlap
\* C37: while the breaker is open and nextTryTime has not come, no step other
\* than forceReset closes it or lowers failureCount; in particular not the
\* completion of an action that execute started before the breaker opened.
C37_StaysOpenThroughCooldown ==
  [][(cb.isOpen /\ cbNow < cb.nextTryTime /\ cbLast'.kind # "reset") =>
        (cb'.isOpen /\ cb'.failureCount >= cb.failureCount)]_vars

\* ------------------------------------------- DeadLetterQueue, retry budget
\* C38: retryMessage uses up retry budget only for republishes that happened.
\* With no retryMessage call in progress, a stored record's retryCount is
\* above the one it was parked with by at most the number of republishes
\* made for it, and a record never republished has the retryCount and the
\* lastErrorTimestamp it was parked with.
C38_BudgetOnlyForRepublishes ==
  \A i \in RecIds :
     (redisDlq[i].present /\ \A c \in Callers : retryPc[c].step = "idle") =>
        /\ redisDlq[i].retryCount - budget[i].parkedWith <= budget[i].republished
        /\ budget[i].republished = 0 =>
             /\ redisDlq[i].retryCount = budget[i].parkedWith
             /\ redisDlq[i].lastErrorTimestamp = budget[i].parkedAt

\* C40: a parked record is republished at most maxRetries minus the
\* retryCount it was parked with, in total, whoever runs retryMessage on it
\* and however the calls interleave.
C40_RepublishesWithinBudget ==
  \A i \in RecIds :
     budget[i].republished <= DLQMaxRetries - budget[i].parkedWith

\* ----------------------------------------- UnifiedConsumer, the retry timer
\* C39: a delivery that handleMessageError acked on the retry path is not
\* lost: its delayed republish is still pending, or it was handed to the
\* broker (the publish did not throw), whatever happened to the consumer's
\* channel in between.
C39_AckedRetryIsRepublished ==
  \A r \in resolved :
     (r.timer /\ r.ack) =>
        \/ \E t \in timers : t.id = r.id /\ t.rc = r.rc + 1
        \/ \E l \in pubLog :
              /\ l.kind = "retry"
              /\ l.msg.id = r.id
              /\ l.msg.rc = r.rc + 1
              /\ ~l.threw

====
